---- MODULE Spec2Model ----
(***************************************************************************)
(* webchirp: the message bridge between the host page (web/js/serial.js,   *)
(* createWorkerRpcClient / createSerialRpcHandler / BrowserSerialBridge)   *)
(* and the Pyodide worker (web/py-worker.js).                              *)
(*                                                                         *)
(* One action is one run-to-completion segment of the JavaScript event     *)
(* loop: a message event or the continuation of an awaited promise,        *)
(* together with the microtasks it triggers.  postMessage channels are     *)
(* FIFO queues.                                                            *)
(***************************************************************************)
EXTENDS Integers, Sequences, FiniteSets, TLC

\* ------------------------------------------------------------------ bounds
MaxCalls == 2      \* callWorker calls issued by the page
MaxRpc == 2        \* serialRpc calls issued by the worker
MaxRx == 2         \* bytes the device sends
MaxOps == 3        \* download / upload operations the caller starts
MaxBlocks == 2     \* blocks of the radio's memory (the last one holds settings)
MaxNodeCalls == 3  \* calls on the scripts' NodeSerialBridge (SpecNode only)
MaxLate == 1       \* late / duplicate responses per listener (SpecLate only)

\* ids of the calls a run can issue (InitOpen has issued one of each already)
CallIds == 1..(MaxCalls + 1)
RpcIds == 1..(MaxRpc + 1)
\* ids a response may carry: those and one that was never issued
HostIds == 1..(MaxCalls + 2)
WorkerIds == 1..(MaxRpc + 2)

\* ------------------------------------------------------------------ inputs
\* method names given to callWorker: a method of the Python runtime, a name
\* handleCall does not know, and the empty name.  (listRadios, the one method
\* that does not use the runtime, is not among the inputs.)
Methods == {"serialTxRx", "nosuch", ""}
\* the methods handleCall hands to the Python runtime
RuntimeMethods == {"parseCsv", "normalizeRows", "serialConnect", "serialDisconnect",
                   "serialTxRx", "downloadSelectedRadio", "uploadSelectedRadio",
                   "getRadioMetadata"}

\* op names the engine hands to serialRpc: before a session is open ...
EngineOps == {"open", "log", "nosuch"}
\* ... and on an open session
SerialOps == {"writeBytes", "resetBuffers", "nosuch"}
SerialMethods == {"serialTxRx"}
\* ... and where only the bridge matters
LateOps == {"log", "nosuch"}
KnownOps == {"open", "close", "writeHex", "readHex", "writeBytes", "readBytes",
             "log", "prepareClone", "resetBuffers"}
WriteArgs == {<<1, 2>>}
\* byte values, and those at the ends of the ranges of the two hex digits
Bytes == 0..255
EdgeBytes == {0, 9, 10, 15, 16, 255}
\* the contents of the read buffer a read finds: every single byte, and the
\* pairs of edge bytes
HexInputs ==
  {<<>>} \cup {<<b>> : b \in Bytes} \cup {<<a, b>> : a \in EdgeBytes, b \in EdgeBytes}
\* reads that return at once
CodecArgs == {<<0, 0>>, <<1, 0>>, <<2, 0>>}
RxBytes == {6, 171}
\* count and timeoutMs of a read; DTR and RTS of prepareClone
ReadArgs == {<<1, 0>>, <<2, 50>>}
CloneArgs == {<<TRUE, FALSE>>}
\* the transport operations of the worker's serial_* wrappers
TransportOps == {"open", "close", "readHex", "readBytes", "prepareClone",
                 "resetBuffers"}
SessionOps == {"open", "close"}
\* what the engine does while the session is torn down
CrashOps == {"close", "readHex"}
ArgsOf(op) ==
  IF op \in {"readHex", "readBytes"} THEN ReadArgs
  ELSE IF op = "prepareClone" THEN CloneArgs
  ELSE IF op \in {"writeBytes", "writeHex"} THEN WriteArgs
  ELSE {<<>>}
\* the serial ports of the machine; the one the user picks in every request
Ports == {"A", "B"}
OnePort == {"A"}

\* ------------------------------------------------------------------ errors
Err(name, message) == [name |-> name, message |-> message]

\* Error.prototype.toString
ErrorToString(e) ==
  IF e.message = "" THEN e.name ELSE e.name \o ": " \o e.message

ErrorTextNoFallback(e) == e.message

\* error?.message || String(error)
ErrorText(e) ==
  IF e.message # "" THEN e.message ELSE ErrorToString(e)

\* new Error(msg.error || "Worker failure")
HostRejectText(error) == IF error # "" THEN error ELSE "Worker failure"

\* new Error(msg.error || "serial rpc failed")
WorkerRejectText(error) == IF error # "" THEN error ELSE "serial rpc failed"

NotConnected == Err("Error", "Port is not connected.")
UnknownOp(op) == Err("Error", "Unknown serial op: " \o op)
UnknownMethod(method) == Err("Error", "Unknown method: " \o method)
RequestPortErrors == {Err("NotFoundError", "No port selected by the user.")}
PortOpenErrors == {Err("NetworkError", "")}
\* port.open() on a port that is not closed
InvalidState == Err("InvalidStateError", "The port is already open.")
\* this.port.readable.getReader() when this.port is null, not open, or locked
NoReadable == Err("TypeError", "Cannot read properties of null (reading 'readable')")
BootstrapErrors == {Err("Error", "Failed to fetch")}
PythonErrors == {Err("PythonError", "Traceback")}

\* ---------------------------------------------------------------- messages
\* the data of a result: a message text, a number and bytes; a result of
\* readHex has the hex text (one token per byte) and the timedOut property
Data(text, n, bytes) ==
  [text |-> text, n |-> n, bytes |-> bytes, hex |-> <<>>, timedOut |-> "absent"]
NoData == Data("", 0, <<>>)

\* {id, method, payload}: the message of callWorker (it has no type field)
CallMsg(id, method) ==
  [type |-> "call", id |-> id, name |-> method, ok |-> FALSE,
   data |-> NoData, error |-> "", arg |-> <<>>]

\* {id, ok, data} / {id, ok, error}: the result of a method call
ResultMsg(id, ok, data, error) ==
  [type |-> "result", id |-> id, name |-> "", ok |-> ok,
   data |-> data, error |-> error, arg |-> <<>>]

\* {type: "serial-rpc", id, op, payload}
RpcMsg(id, op, arg) ==
  [type |-> "serial-rpc", id |-> id, name |-> op, ok |-> FALSE,
   data |-> NoData, error |-> "", arg |-> arg]

\* {type: "serial-rpc-result", id, ok, data|error}
RpcResultMsg(id, ok, data, error) ==
  [type |-> "serial-rpc-result", id |-> id, name |-> "", ok |-> ok,
   data |-> data, error |-> error, arg |-> <<>>]

\* ------------------------------------------------------------------- state
VARIABLES
  reqId,            \* serial.js: let reqId
  pending,          \* serial.js: const pending = new Map()  (its keys)
  hostPromise,      \* the promise callWorker returned, per id
  hostSettles,      \* how often a resolve/reject continuation ran, per id
  toWorker,         \* messages posted with worker.postMessage, in flight
  toHost,           \* messages posted with self.postMessage, in flight
  rpcId,            \* py-worker.js: let rpcId
  rpcPending,       \* py-worker.js: const rpcPending = new Map()  (its keys)
  rpcPromise,       \* the promise serialRpc returned, per id
  rpcSettles,       \* how often a resolve/reject continuation ran, per id
  task,             \* the handleCall invocations of the worker, per call id
  bootstrapPromise, \* py-worker.js: let bootstrapPromise
  scall,            \* the handleSerialRpc invocations of the page, per rpc id
  port, reader, writer, readBuffer,   \* BrowserSerialBridge fields
  portState,        \* the state of each serial port of the machine
  readLoop,         \* _startReadLoop is running
  signals,          \* the control lines last set on the port
  writeQueue,       \* chunks queued in the port's writable stream
  wire,             \* bytes the port has transmitted, tagged with their call
  rxCount,          \* bytes the device has sent so far
  hist,             \* history: orders of issue, post and settlement
  lateCount,        \* late responses delivered so far
  engine,           \* the clone protocol engine: state and current operation
  cache,            \* the cached image, per deviceKey
  radio,            \* the memory of the radio, per block
  sent,             \* the commands the engine has written to the transport
  results,          \* what the clone operations returned to their callers
  hwTest,           \* the hardware test script: run()
  smokeTest,        \* the smoke test script: main()
  node              \* NodeSerialBridge of the scripts, called directly

vars == <<reqId, pending, hostPromise, hostSettles, toWorker, toHost, rpcId,
          rpcPending, rpcPromise, rpcSettles, task, bootstrapPromise, scall,
          port, reader, writer, readBuffer, portState, readLoop, signals,
          writeQueue, wire, rxCount, hist, lateCount, engine, cache, radio,
          sent, results, hwTest, smokeTest, node>>

hostVars == <<reqId, pending, hostPromise, hostSettles>>
workerVars == <<rpcId, rpcPending, rpcPromise, rpcSettles, task, bootstrapPromise>>
serialVars == <<port, reader, writer, readBuffer, portState, readLoop, signals,
                writeQueue, wire, rxCount>>
scriptVars == <<hwTest, smokeTest, node>>
\* the state outside the bridge
cloneVars == <<engine, cache, radio, sent, results, scriptVars>>
\* the same without the read buffer
serialRest == <<port, reader, writer, portState, readLoop, signals, writeQueue,
                wire, rxCount>>

NoPromise == [state |-> "none", data |-> NoData, error |-> ""]
PendingPromise == [state |-> "pending", data |-> NoData, error |-> ""]
Resolved(data) == [state |-> "resolved", data |-> data, error |-> ""]
Rejected(text) == [state |-> "rejected", data |-> NoData, error |-> text]

NoTask == [method |-> "", pc |-> "none", wait |-> 0]
NoCall == [op |-> "", pc |-> "none", arg |-> <<>>, todo |-> <<>>, written |-> 0,
           dev |-> "null", count |-> 0, cut |-> FALSE, stale |-> FALSE, had |-> 0]

\* the outcome of a handler: a returned value or a thrown error
Returned(data) == [ok |-> TRUE, data |-> data, err |-> Err("", "")]
Thrown(e) == [ok |-> FALSE, data |-> NoData, err |-> e]

NoFailure == [thrown |-> FALSE, text |-> ""]
Failure(text) == [thrown |-> TRUE, text |-> text]

EmptyHist ==
  [issuedReq |-> <<>>, issuedRpc |-> <<>>,
   posted |-> <<>>, rpcPosted |-> <<>>,
   settled |-> <<>>, rpcSettled |-> <<>>,
   failed |-> [i \in HostIds |-> NoFailure],
   rpcFailed |-> [k \in WorkerIds |-> NoFailure],
   ignored |-> FALSE, rpcIgnored |-> FALSE,
   overlap |-> FALSE, before |-> 0,
   crashed |-> FALSE, dead |-> FALSE, outstanding |-> {},
   received |-> <<>>, executed |-> <<>>,
   asked |-> [k \in WorkerIds |-> <<>>],
   boots |-> 0, sessions |-> 0, rxSession |-> <<>>, readIn |-> [k \in WorkerIds |-> 0]]

\* ------------------------------------------------- the clone protocol engine
DeviceKeys == {"uv5r", "ft60"}
BlockSize == 8
BlockAddrs == {BlockSize * n : n \in 0..(MaxBlocks - 1)}
ImageSize == BlockSize * MaxBlocks
\* what a block holds
Values == {0, 1}
ACK == 6
NAK == 21
\* what a one-byte read returns: the ACK, another byte, or nothing in time
Replies == {<<ACK>>, <<NAK>>, <<>>}
\* the identification block: with a signature of the family, without, short
Idents == {"signature", "other", "short"}
\* how a block read ends
BlockReplies == {"block", "mismatch", "timeout"}

NoImage == <<>>
Images == [1..MaxBlocks -> Values]
\* the rows the caller edits: one value per channel block
Rows == [1..(MaxBlocks - 1) -> Values]

Cmd(cmd, addr) == [cmd |-> cmd, addr |-> addr]
IdleEngine ==
  [state |-> "Idle", pc |-> "", op |-> "", key |-> "", addr |-> 0,
   error |-> "", image |-> NoImage, from |-> 0, ident |-> "", rows |-> <<>>]

\* --------------------------------------------- the command-line test scripts
\* new NodeSerialBridge(...): this.port = null
NoBridge == [port |-> "null", isOpen |-> FALSE]

\* no call has ended yet
NoOutcome == [op |-> "", ok |-> TRUE, error |-> "", data |-> NoData]

NoNode == [bridge |-> NoBridge, readBuffer |-> <<>>, wire |-> <<>>, calls |-> 0,
           last |-> NoOutcome]

InitScripts ==
  /\ node = NoNode
  /\ hwTest = [pc |-> "setup", bridge |-> NoBridge, backupSaved |-> FALSE,
               failure |-> FALSE, failed |-> {}, restores |-> 0, closes |-> 0,
               exit |-> "none"]
  /\ smokeTest = [pc |-> "setup", bridge |-> NoBridge, failed |-> {},
                  closes |-> 0, exit |-> "none"]

InitEngine ==
  /\ engine = IdleEngine
  /\ cache = [key \in DeviceKeys |-> NoImage]
  /\ sent = <<>>
  /\ results = <<>>

InitClone ==
  /\ InitEngine
  /\ radio = [n \in 1..MaxBlocks |-> 0]

\* the state after construction: no call issued, no port
InitBridge ==
  /\ reqId = 0
  /\ pending = {}
  /\ hostPromise = [i \in HostIds |-> NoPromise]
  /\ hostSettles = [i \in HostIds |-> 0]
  /\ toWorker = <<>>
  /\ toHost = <<>>
  /\ rpcId = 0
  /\ rpcPending = {}
  /\ rpcPromise = [k \in WorkerIds |-> NoPromise]
  /\ rpcSettles = [k \in WorkerIds |-> 0]
  /\ task = [i \in HostIds |-> NoTask]
  /\ bootstrapPromise = "unset"
  /\ scall = [k \in WorkerIds |-> NoCall]
  /\ port = "null"
  /\ reader = FALSE
  /\ writer = FALSE
  /\ readBuffer = <<>>
  /\ portState = [p \in Ports |-> "closed"]
  /\ readLoop = FALSE
  /\ signals = <<>>
  /\ writeQueue = <<>>
  /\ wire = <<>>
  /\ rxCount = 0
  /\ hist = EmptyHist
  /\ lateCount = [host |-> 0, worker |-> 0]

\* the state after construction
Init == InitBridge /\ InitClone /\ InitScripts

ConnectResult == Data("result", 1, <<>>)
Connected == Data("Connected", 1, <<>>)

\* the state after the first call, a serialTxRx whose engine opened the port:
\* call 1 and serial rpc 1 are answered, the runtime is up, the port is open
OpenStateWith(before, buf) ==
  /\ reqId = 1
  /\ pending = {}
  /\ hostPromise = [i \in HostIds |-> IF i = 1 THEN Resolved(ConnectResult) ELSE NoPromise]
  /\ hostSettles = [i \in HostIds |-> IF i = 1 THEN 1 ELSE 0]
  /\ toWorker = <<>>
  /\ toHost = <<>>
  /\ rpcId = 1
  /\ rpcPending = {}
  /\ rpcPromise = [k \in WorkerIds |-> IF k = 1 THEN Resolved(Connected) ELSE NoPromise]
  /\ rpcSettles = [k \in WorkerIds |-> IF k = 1 THEN 1 ELSE 0]
  /\ task = [i \in HostIds |->
               IF i = 1 THEN [method |-> "serialTxRx", pc |-> "done", wait |-> 1]
               ELSE NoTask]
  /\ bootstrapPromise = "fulfilled"
  /\ scall = [k \in WorkerIds |->
                IF k = 1 THEN [NoCall EXCEPT !.op = "open", !.pc = "done", !.dev = "A"]
                ELSE NoCall]
  /\ port = "A"
  /\ reader = TRUE
  /\ writer = TRUE
  /\ readBuffer = buf
  /\ portState = [p \in Ports |-> IF p = "A" THEN "opened" ELSE "closed"]
  /\ readLoop = TRUE
  /\ signals = <<>>
  /\ writeQueue = <<>>
  /\ wire = <<>>
  /\ rxCount = 0
  /\ hist = [EmptyHist EXCEPT !.issuedReq = <<1>>, !.issuedRpc = <<1>>,
                              !.posted = <<1>>, !.rpcPosted = <<1>>,
                              !.settled = <<1>>, !.rpcSettled = <<1>>,
                              !.before = before, !.sessions = 1, !.boots = 1,
                              !.received = buf,
                              !.rxSession = [n \in DOMAIN buf |-> 1]]
  /\ lateCount = [host |-> 0, worker |-> 0]
  /\ InitClone
  /\ InitScripts

\* an open session with an empty read buffer
OpenState(before) == OpenStateWith(before, <<>>)

InitOpen == OpenState(1)

\* an open session with bytes in the read buffer
InitCodec == \E buf \in HexInputs : OpenStateWith(1, buf)

\* ============================================================ the page side
Min(S) == CHOOSE x \in S : \A y \in S : x <= y

\* const id = ++reqId
NextReqId(n) == n + 1

AddPendingNever(map, id) == map

\* pending.set(id, { resolve, reject })
AddPending(map, id) == map \cup {id}

\* callWorker(method, payload)
callWorker(method) ==
  /\ Len(hist.issuedReq) < MaxCalls + hist.before
  /\ LET id == NextReqId(reqId) IN
       /\ reqId' = id
       /\ pending' = AddPending(pending, id)
       /\ hostPromise' = [hostPromise EXCEPT ![id] = PendingPromise]
       /\ toWorker' = Append(toWorker, CallMsg(id, method))
       /\ hist' = [hist EXCEPT !.issuedReq = Append(@, id)]
  /\ UNCHANGED <<hostSettles, toHost, workerVars, scall, serialVars, lateCount, cloneVars>>

\* the message the listener posts for the outcome r of handleSerialRpc
RpcReply(k, r) ==
  IF r.ok THEN RpcResultMsg(k, TRUE, r.data, "")
          ELSE RpcResultMsg(k, FALSE, NoData, ErrorText(r.err))

\* worker.postMessage({type: "serial-rpc-result", ...}) with its history
HistRpcPost(h, k, r) ==
  [h EXCEPT !.rpcPosted = Append(@, k),
            !.rpcFailed[k] = IF r.ok THEN @ ELSE Failure(RpcReply(k, r).error)]

HostPost(k, r) ==
  /\ toWorker' = Append(toWorker, RpcReply(k, r))
  /\ hist' = HistRpcPost(hist, k, r)

HexDigits == <<"0", "1", "2", "3", "4", "5", "6", "7",
               "8", "9", "A", "B", "C", "D", "E", "F">>

\* b.toString(16).padStart(2, "0").toUpperCase()
HexByte(b) == HexDigits[(b \div 16) + 1] \o HexDigits[(b % 16) + 1]

\* bytesToHex: one token per byte (the tokens are joined by spaces)
bytesToHex(bytes) == [n \in DOMAIN bytes |-> HexByte(bytes[n])]

\* the value of a hexadecimal digit
DigitValue(d) == CHOOSE v \in 0..15 : HexDigits[v + 1] = d

RECURSIVE parseInt16(_, _)
\* Number.parseInt(part, 16): the digits are taken from left to right
parseInt16(part, acc) ==
  IF Len(part) = 0 THEN acc
  ELSE parseInt16(SubSeq(part, 2, Len(part)),
                  16 * acc + DigitValue(SubSeq(part, 1, 1)))

ParseHexByteLastDigit(part) == DigitValue(SubSeq(part, Len(part), Len(part)))

\* Number.parseInt(part, 16)
ParseHexByte(part) == parseInt16(part, 0)

ReadHexResultNeverTimedOut(out, count) ==
  [text |-> "", n |-> Len(out), bytes |-> <<>>, hex |-> bytesToHex(out),
   timedOut |-> "false"]

\* readHex: {read, hex, timedOut} for the bytes out of a read of count bytes
ReadHexResult(out, count) ==
  [text |-> "", n |-> Len(out), bytes |-> <<>>, hex |-> bytesToHex(out),
   timedOut |-> IF Len(out) < count THEN "true" ELSE "false"]

ReadBytesResultAsHex(result) == result

\* readBytes: the array of the bytes parsed from the hex text of readHex
ReadBytesResult(result) ==
  Data("", 0, IF result.hex # <<>>
              THEN [n \in DOMAIN result.hex |-> ParseHexByte(result.hex[n])]
              ELSE <<>>)

DispatchDefaultReset(op) == IF op \in KnownOps THEN op ELSE "resetBuffers"

\* the if-chain of handleSerialRpc: the branch taken for an op name
Dispatch(op) == IF op \in KnownOps THEN op ELSE "unknown"

WriteChunksPerByte(bytes) ==
  IF bytes = <<>> THEN <<bytes>> ELSE [n \in 1..Len(bytes) |-> <<bytes[n]>>]

\* writeBytes hands the whole byte array to writer.write in one chunk
WriteChunks(bytes) == <<bytes>>

Writing(k) == scall[k].pc = "write"

AlreadyConnectedError == Thrown(Err("Error", "AlreadyOpen"))

\* open: if (this.port) return { connected: true, message: "Already connected." }
AlreadyConnected == Returned(Data("Already connected.", 1, <<>>))

RemainingAll(buf, available) == buf

\* this.readBuffer = this.readBuffer.slice(available)
Remaining(buf, available) == SubSeq(buf, available + 1, Len(buf))

\* readHex after its loop: the oldest bytes, at most count, leave the buffer
\* and are returned (readBytes converts the hex text back to numbers)
ReadFinish(k, op, count) ==
  LET available == Min({count, Len(readBuffer)})
      out == SubSeq(readBuffer, 1, available)
      result == ReadHexResult(out, count)
  IN
  /\ readBuffer' = Remaining(readBuffer, available)
  /\ HostPost(k, Returned(IF op = "readBytes" THEN ReadBytesResult(result)
                          ELSE result))

PrepareCloneKeepsBuffer(buf) == buf

\* prepareClone: this.readBuffer = new Uint8Array(0)
PrepareCloneBuffer(buf) == <<>>

\* the reads that wait for bytes
Polling(k) == scall[k].pc = "poll" /\ Len(readBuffer) < scall[k].count

\* close(): the end of the function
CloseFinish(k) ==
  /\ port' = "null"
  /\ reader' = FALSE
  /\ writer' = FALSE
  /\ readBuffer' = <<>>
  /\ HostPost(k, Returned(Data("Disconnected.", 0, <<>>)))

\* handleSerialRpc(msg) up to its first suspension
handleSerialRpc(m) ==
  LET k == m.id
      op == Dispatch(m.name)
  IN
  CASE op = "open" ->
         IF port # "null"
         THEN /\ HostPost(k, AlreadyConnected)
              /\ UNCHANGED <<scall, serialVars>>
         ELSE /\ scall' = [scall EXCEPT ![k] =
                             [NoCall EXCEPT !.op = "open", !.pc = "requestPort"]]
              /\ UNCHANGED <<toWorker, hist, serialVars>>
    [] op = "log" ->
         /\ HostPost(k, Returned(Data("logged", 1, <<>>)))
         /\ UNCHANGED <<scall, serialVars>>
    [] op = "resetBuffers" ->
         /\ readBuffer' = <<>>
         /\ HostPost(k, Returned(Data("reset", 1, <<>>)))
         /\ scall' = [scall EXCEPT ![k] =
                        [NoCall EXCEPT !.op = "resetBuffers", !.pc = "done"]]
         /\ UNCHANGED <<port, reader, writer, portState, readLoop, signals,
                        writeQueue, wire, rxCount>>
    [] op = "writeBytes" ->
         IF ~writer
         THEN /\ HostPost(k, Thrown(NotConnected))
              /\ UNCHANGED <<scall, serialVars>>
         ELSE LET chunks == WriteChunks(m.arg) IN
              /\ writeQueue' = Append(writeQueue, [call |-> k, bytes |-> Head(chunks)])
              /\ scall' = [scall EXCEPT ![k] =
                             [NoCall EXCEPT !.op = "writeBytes", !.pc = "write",
                                            !.arg = m.arg, !.todo = Tail(chunks),
                                            !.written = Len(m.arg)]]
              /\ hist' = [hist EXCEPT !.overlap =
                             @ \/ \E j \in WorkerIds : j # k /\ Writing(j)]
              /\ UNCHANGED <<toWorker, port, reader, writer, readBuffer, portState,
                             readLoop, signals, wire, rxCount>>
    [] op = "close" ->
         IF port = "null"
         THEN /\ HostPost(k, Returned(Data("No port connected.", 0, <<>>)))
              /\ UNCHANGED <<scall, serialVars>>
         ELSE /\ scall' = [j \in WorkerIds |->
                             IF j = k
                             THEN [NoCall EXCEPT
                                     !.op = "close",
                                     !.pc = IF reader THEN "cancel" ELSE "portClose",
                                     !.dev = port,
                                     !.cut = (portState[port] = "opened")]
                             ELSE IF Polling(j)
                             THEN [scall[j] EXCEPT !.stale = TRUE,
                                                   !.had = Len(readBuffer)]
                             ELSE scall[j]]
              /\ readLoop' = IF reader THEN FALSE ELSE readLoop
              /\ UNCHANGED <<toWorker, hist, port, reader, writer, readBuffer,
                             portState, signals, writeQueue, wire, rxCount>>
    [] op \in {"readHex", "readBytes"} ->
         LET count == m.arg[1]
             timeoutMs == m.arg[2]
         IN
         IF port = "null"
         THEN /\ HostPost(k, Thrown(NotConnected))
              /\ UNCHANGED <<scall, serialVars>>
         ELSE IF Len(readBuffer) >= count \/ timeoutMs <= 0
         THEN /\ ReadFinish(k, op, count)
              /\ scall' = [scall EXCEPT ![k] =
                             [NoCall EXCEPT !.op = op, !.pc = "done", !.count = count]]
              /\ UNCHANGED serialRest
         ELSE /\ scall' = [scall EXCEPT ![k] =
                             [NoCall EXCEPT !.op = op, !.pc = "poll", !.count = count]]
              /\ hist' = [hist EXCEPT !.readIn[k] = IF reader THEN hist.sessions ELSE 0]
              /\ UNCHANGED <<toWorker, serialVars>>
    [] op = "prepareClone" ->
         IF port = "null"
         THEN /\ HostPost(k, Thrown(NotConnected))
              /\ UNCHANGED <<scall, serialVars>>
         ELSE /\ readBuffer' = PrepareCloneBuffer(readBuffer)
              /\ scall' = [scall EXCEPT ![k] =
                             [NoCall EXCEPT !.op = op, !.pc = "signals", !.arg = m.arg]]
              /\ UNCHANGED <<toWorker, hist, serialRest>>
    [] OTHER ->
         /\ HostPost(k, Thrown(UnknownOp(m.name)))
         /\ UNCHANGED <<scall, serialVars>>

IsPendingAlways(map, id) == TRUE

\* const p = pending.get(msg.id); if (!p) return
IsPending(map, id) == id \in map

LookupOldest(map, id) == Min(map)

\* pending.get(msg.id): the call whose continuation is invoked
LookupPending(map, id) == id

RemoveAll(map, id) == {}

\* pending.delete(msg.id)
RemovePending(map, id) == map \ {id}

\* the continuation invoked for a result message
HostOutcome(m) ==
  IF m.ok THEN Resolved(m.data) ELSE Rejected(HostRejectText(m.error))

\* the listener's branch for a message that is not a serial-rpc request
HostResult(m) ==
  IF ~IsPending(pending, m.id)
  THEN /\ hist' = [hist EXCEPT !.ignored = TRUE]
       /\ UNCHANGED <<pending, hostPromise, hostSettles>>
  ELSE LET i == LookupPending(pending, m.id) IN
       /\ pending' = RemovePending(pending, m.id)
       /\ hostPromise' = [hostPromise EXCEPT ![i] = HostOutcome(m)]
       /\ hostSettles' = [hostSettles EXCEPT ![i] = @ + 1]
       /\ hist' = [hist EXCEPT !.settled = Append(@, i)]

IsSerialRpcTypo(m) == m.type = "serial_rpc"

\* msg.type === "serial-rpc"
IsSerialRpc(m) == m.type = "serial-rpc"

\* worker.addEventListener("message", ...)
HostOnMessage ==
  /\ toHost # <<>>
  /\ toHost' = Tail(toHost)
  /\ LET m == Head(toHost) IN
       IF IsSerialRpc(m)
       THEN /\ handleSerialRpc(m)
            /\ UNCHANGED <<pending, hostPromise, hostSettles>>
       ELSE /\ HostResult(m)
            /\ UNCHANGED <<toWorker, scall, serialVars>>
  /\ UNCHANGED <<reqId, workerVars, lateCount, cloneVars>>

\* open(): the port request is answered with a port of the machine (or is
\* refused); this.port is assigned and port.open() is called on it, which
\* rejects at once when that port is not closed
OpenRequestSettle(k, ports) ==
  /\ scall[k].pc = "requestPort"
  /\ \/ \E p \in ports :
          /\ port' = p
          /\ IF portState[p] = "closed"
             THEN /\ portState' = [portState EXCEPT ![p] = "opening"]
                  /\ scall' = [scall EXCEPT ![k].pc = "portOpen", ![k].dev = p]
                  /\ UNCHANGED <<toWorker, hist>>
             ELSE /\ HostPost(k, Thrown(InvalidState))
                  /\ scall' = [scall EXCEPT ![k].pc = "done"]
                  /\ UNCHANGED portState
     \/ /\ \E e \in RequestPortErrors : HostPost(k, Thrown(e))
        /\ scall' = [scall EXCEPT ![k].pc = "done"]
        /\ UNCHANGED <<port, portState>>
  /\ UNCHANGED <<hostVars, toHost, workerVars, reader, writer, readBuffer, readLoop,
                 signals, writeQueue, wire, rxCount, lateCount, cloneVars>>

\* open(): port.open() ends; the reader and the writer of this.port are taken
\* and the read loop starts
OpenPortSettle(k) ==
  /\ scall[k].pc = "portOpen"
  /\ \/ /\ portState' = [portState EXCEPT ![scall[k].dev] = "opened"]
        /\ IF port # "null" /\ portState'[port] = "opened" /\ ~reader
           THEN /\ reader' = TRUE
                /\ writer' = TRUE
                /\ readLoop' = TRUE
                /\ toWorker' = Append(toWorker, RpcReply(k, Returned(Connected)))
                /\ hist' = [HistRpcPost(hist, k, Returned(Connected))
                              EXCEPT !.sessions = @ + 1]
           ELSE /\ HostPost(k, Thrown(NoReadable))
                /\ UNCHANGED <<reader, writer, readLoop>>
     \/ /\ \E e \in PortOpenErrors : HostPost(k, Thrown(e))
        /\ portState' = [portState EXCEPT ![scall[k].dev] = "closed"]
        /\ UNCHANGED <<reader, writer, readLoop>>
  /\ scall' = [scall EXCEPT ![k].pc = "done"]
  /\ UNCHANGED <<hostVars, toHost, workerVars, port, readBuffer, signals, writeQueue,
                 wire, rxCount, lateCount, cloneVars>>

\* close(): reader.cancel() has ended; the locks are released and port.close()
\* is called (on no port when another close has ended in between)
CloseCancelSettle(k) ==
  /\ scall[k].pc = "cancel"
  /\ IF port = "null"
     THEN /\ CloseFinish(k)
          /\ scall' = [scall EXCEPT ![k].pc = "done"]
     ELSE /\ scall' = [scall EXCEPT ![k].pc = "portClose", ![k].dev = port,
                                     ![k].cut = (portState[port] = "opened")]
          /\ UNCHANGED <<toWorker, hist, port, reader, writer, readBuffer>>
  /\ UNCHANGED <<hostVars, toHost, workerVars, portState, readLoop, signals,
                 writeQueue, wire, rxCount, lateCount, cloneVars>>

\* close(): port.close() has ended (an error of it is ignored); the fields are
\* reset
ClosePortSettle(k) ==
  /\ scall[k].pc = "portClose"
  /\ portState' = IF scall[k].cut THEN [portState EXCEPT ![scall[k].dev] = "closed"]
                  ELSE portState
  /\ CloseFinish(k)
  /\ scall' = [scall EXCEPT ![k].pc = "done"]
  /\ UNCHANGED <<hostVars, toHost, workerVars, readLoop, signals, writeQueue, wire,
                 rxCount, lateCount, cloneVars>>

\* readHex: the 10 ms timer of the loop fires; the read returns when count
\* bytes are buffered or when the deadline has passed
ReadPoll(k) ==
  /\ scall[k].pc = "poll"
  /\ \E expired \in BOOLEAN : Len(readBuffer) >= scall[k].count \/ expired
  /\ ReadFinish(k, scall[k].op, scall[k].count)
  /\ scall' = [scall EXCEPT ![k].pc = "done"]
  /\ UNCHANGED <<hostVars, toHost, workerVars, serialRest, lateCount, cloneVars>>

\* prepareClone: port.setSignals() has ended (its error is ignored)
PrepareSignals(k) ==
  /\ scall[k].pc = "signals"
  /\ \/ signals' = scall[k].arg
     \/ UNCHANGED signals
  /\ scall' = [scall EXCEPT ![k].pc = "settle"]
  /\ UNCHANGED <<hostVars, toHost, toWorker, workerVars, port, reader, writer,
                 readBuffer, portState, readLoop, writeQueue, wire, rxCount, hist,
                 lateCount, cloneVars>>

\* prepareClone: the settle timer fires
PrepareSettle(k) ==
  /\ scall[k].pc = "settle"
  /\ HostPost(k, Returned(Data("prepared", 1, <<>>)))
  /\ scall' = [scall EXCEPT ![k].pc = "done"]
  /\ UNCHANGED <<hostVars, toHost, workerVars, serialVars, lateCount, cloneVars>>

\* the port transmits the next byte of the chunk at the head of its queue; when
\* the chunk is through, writer.write() resolves and writeBytes returns
SinkStep ==
  /\ writeQueue # <<>>
  /\ LET c == Head(writeQueue)
         k == c.call
     IN
     /\ wire' = IF c.bytes = <<>> THEN wire
                ELSE Append(wire, [call |-> k, byte |-> Head(c.bytes)])
     /\ IF Len(c.bytes) > 1
        THEN /\ writeQueue' = <<[c EXCEPT !.bytes = Tail(@)]>> \o Tail(writeQueue)
             /\ UNCHANGED <<scall, toWorker, hist>>
        ELSE IF scall[k].todo # <<>>
        THEN /\ writeQueue' = Append(Tail(writeQueue),
                                     [call |-> k, bytes |-> Head(scall[k].todo)])
             /\ scall' = [scall EXCEPT ![k].todo = Tail(@)]
             /\ UNCHANGED <<toWorker, hist>>
        ELSE /\ writeQueue' = Tail(writeQueue)
             /\ scall' = [scall EXCEPT ![k].pc = "done"]
             /\ HostPost(k, Returned(Data("", scall[k].written, <<>>)))
  /\ UNCHANGED <<hostVars, toHost, workerVars, port, reader, writer, readBuffer,
                 portState, readLoop, signals, rxCount, lateCount, cloneVars>>

concatUint8Swapped(a, b) == b \o a

\* concatUint8(this.readBuffer, value)
concatUint8(a, b) == a \o b

\* _startReadLoop: a byte arrives from the device and is appended to the
\* buffer; the loop goes on while (this.port && this.reader)
ReadLoop ==
  /\ readLoop
  /\ rxCount < MaxRx
  /\ \E b \in RxBytes :
       /\ readBuffer' = concatUint8(readBuffer, <<b>>)
       /\ hist' = [hist EXCEPT !.received = Append(@, b),
                               !.rxSession = Append(@, hist.sessions)]
  /\ rxCount' = rxCount + 1
  /\ readLoop' = (port # "null" /\ reader)
  /\ UNCHANGED <<hostVars, toHost, toWorker, workerVars, scall, port, reader,
                 writer, portState, signals, writeQueue, wire, lateCount,
                 cloneVars>>


\* ========================================================== the worker side
NextRpcIdWrapping(n) == (n % 2) + 1

\* const id = ++rpcId
NextRpcId(n) == n + 1

\* the message onmessage posts for the outcome r of handleCall
Reply(i, r) ==
  IF r.ok THEN ResultMsg(i, TRUE, r.data, "")
          ELSE ResultMsg(i, FALSE, NoData, ErrorText(r.err))

HistPost(h, i, r) ==
  [h EXCEPT !.posted = Append(@, i),
            !.failed[i] = IF r.ok THEN @ ELSE Failure(Reply(i, r).error)]

\* self.postMessage({id, ok, data}) / self.postMessage({id, ok: false, error})
WorkerPost(i, r) ==
  /\ toHost' = Append(toHost, Reply(i, r))
  /\ hist' = HistPost(hist, i, r)

\* the handleCall invocation i ends with outcome r
Finish(i, r) ==
  /\ WorkerPost(i, r)
  /\ task' = [task EXCEPT ![i].pc = "done"]

\* const pending = rpcPending.get(msg.id); if (!pending) return
IsRpcPending(map, id) == id \in map

KeepRpcPending(map, id) == map

\* rpcPending.delete(msg.id)
RemoveRpcPending(map, id) == map \ {id}

RpcOutcome(m) ==
  IF m.ok THEN Resolved(m.data) ELSE Rejected(WorkerRejectText(m.error))

\* onmessage: the branch for a serial-rpc-result
WorkerRpcResult(m) ==
  IF ~IsRpcPending(rpcPending, m.id)
  THEN /\ hist' = [hist EXCEPT !.rpcIgnored = TRUE]
       /\ UNCHANGED <<rpcPending, rpcPromise, rpcSettles>>
  ELSE /\ rpcPending' = RemoveRpcPending(rpcPending, m.id)
       /\ rpcPromise' = [rpcPromise EXCEPT ![m.id] = RpcOutcome(m)]
       /\ rpcSettles' = [rpcSettles EXCEPT ![m.id] = @ + 1]
       /\ hist' = [hist EXCEPT !.rpcSettled = Append(@, m.id)]

\* msg.type === "serial-rpc-result"
IsRpcResult(m) == m.type = "serial-rpc-result"

\* if (!id || !method) return
IsMalformed(m) == m.id = 0 \/ m.name = ""

BootstrapStartedNever(p) == FALSE

\* ensurePyodide: if (!bootstrapPromise) is false
BootstrapStarted(p) == p # "unset"

\* handleCall(method, payload) up to its first suspension: ensurePyodide
\* starts the bootstrap when there is no bootstrap promise yet, and the call
\* waits for the promise
handleCall(i, method) ==
  /\ bootstrapPromise' = IF BootstrapStarted(bootstrapPromise) THEN bootstrapPromise
                         ELSE "pending"
  /\ task' = [task EXCEPT ![i] = [method |-> method, pc |-> "boot", wait |-> 0]]
  /\ hist' = [hist EXCEPT !.boots = IF BootstrapStarted(bootstrapPromise) THEN @
                                    ELSE @ + 1]
  /\ UNCHANGED toHost

\* self.onmessage
WorkerOnMessage ==
  /\ toWorker # <<>>
  /\ toWorker' = Tail(toWorker)
  /\ LET m == Head(toWorker) IN
       IF IsRpcResult(m)
       THEN /\ WorkerRpcResult(m)
            /\ UNCHANGED <<toHost, task, bootstrapPromise>>
       ELSE IF IsMalformed(m)
       THEN UNCHANGED <<toHost, task, bootstrapPromise, hist, rpcPending,
                        rpcPromise, rpcSettles>>
       ELSE /\ handleCall(m.id, m.name)
            /\ UNCHANGED <<rpcPending, rpcPromise, rpcSettles>>
  /\ UNCHANGED <<hostVars, rpcId, scall, serialVars, lateCount, cloneVars>>

\* ensurePyodide: the bootstrap promise settles
BootstrapSettle ==
  /\ bootstrapPromise = "pending"
  /\ \/ bootstrapPromise' = "fulfilled"
     \/ bootstrapPromise' = "rejected"
  /\ UNCHANGED <<hostVars, toWorker, toHost, rpcId, rpcPending, rpcPromise,
                 rpcSettles, task, scall, serialVars, hist,
                 lateCount, cloneVars>>

BootstrapError == CHOOSE e \in BootstrapErrors : TRUE

\* handleCall after "await ensurePyodide()": the invocations waiting for the
\* runtime continue in the order in which they began to wait
TaskAfterBoot(i) ==
  /\ task[i].pc = "boot"
  /\ \A j \in CallIds : j < i => task[j].pc # "boot"
  /\ bootstrapPromise \in {"fulfilled", "rejected"}
  /\ IF bootstrapPromise = "rejected"
     THEN Finish(i, Thrown(BootstrapError))
     ELSE IF task[i].method \in RuntimeMethods
     THEN /\ task' = [task EXCEPT ![i].pc = "run"]
          /\ UNCHANGED <<toHost, hist>>
     ELSE Finish(i, Thrown(UnknownMethod(task[i].method)))
  /\ UNCHANGED <<hostVars, toWorker, rpcId, rpcPending, rpcPromise, rpcSettles,
                 bootstrapPromise, scall, serialVars, lateCount, cloneVars>>

\* serialRpc(op, payload), called by the engine of invocation i
serialRpc(i, op, arg) ==
  /\ Len(hist.issuedRpc) < MaxRpc + hist.before
  /\ LET id == NextRpcId(rpcId) IN
       /\ rpcId' = id
       /\ rpcPending' = rpcPending \cup {id}
       /\ rpcPromise' = [rpcPromise EXCEPT ![id] = PendingPromise]
       /\ toHost' = Append(toHost, RpcMsg(id, op, arg))
       /\ task' = [task EXCEPT ![i].pc = "await", ![i].wait = id]
       /\ hist' = [hist EXCEPT !.issuedRpc = Append(@, id)]

Runnable(i) ==
  \/ task[i].pc = "run"
  \/ /\ task[i].pc = "await"
     /\ rpcPromise[task[i].wait].state \in {"resolved", "rejected"}

\* the engine: it issues one transport operation and suspends until the result
\* has arrived, or it ends with a result or an error
EngineStep(i, ops) ==
  /\ Runnable(i)
  /\ \/ /\ \E op \in ops :
             \E arg \in (IF op = "writeBytes" THEN WriteArgs
                        ELSE IF op = "readHex" THEN {<<2, 50>>} ELSE {<<>>}) :
               serialRpc(i, op, arg)
        /\ UNCHANGED rpcSettles
     \/ /\ Finish(i, Returned(Data("result", i, <<>>)))
        /\ UNCHANGED <<rpcId, rpcPending, rpcPromise, rpcSettles>>
     \/ /\ \E e \in PythonErrors : Finish(i, Thrown(e))
        /\ UNCHANGED <<rpcId, rpcPending, rpcPromise, rpcSettles>>
  /\ UNCHANGED <<hostVars, toWorker, bootstrapPromise, scall,
                 serialVars, lateCount, cloneVars>>

\* self.serial_open(...), self.serial_close(), ...: a wrapper calls serialRpc
serialWrapper(op, arg) ==
  /\ Len(hist.issuedRpc) < MaxRpc + 1 + hist.before
  /\ LET id == NextRpcId(rpcId) IN
       /\ rpcId' = id
       /\ rpcPending' = rpcPending \cup {id}
       /\ rpcPromise' = [rpcPromise EXCEPT ![id] = PendingPromise]
       /\ toHost' = Append(toHost, RpcMsg(id, op, arg))
       /\ hist' = [hist EXCEPT !.issuedRpc = Append(@, id)]
  /\ UNCHANGED <<hostVars, toWorker, rpcSettles, task, bootstrapPromise, scall,
                 serialVars, lateCount, cloneVars>>

\* count: Number(count || 1)
WrapCount(count) == IF count = 0 THEN 1 ELSE count

\* timeoutMs: Number(timeoutMs || 1200)
WrapTimeout(timeoutMs) == IF timeoutMs = 0 THEN 1200 ELSE timeoutMs

\* self.serial_read_hex(count, timeoutMs) / self.serial_read_bytes(count,
\* timeoutMs), called by the engine: the wrapper builds the payload and calls
\* serialRpc
serial_read(op, count, timeoutMs) ==
  /\ Len(hist.issuedRpc) < MaxRpc + hist.before
  /\ LET id == NextRpcId(rpcId) IN
       /\ rpcId' = id
       /\ rpcPending' = rpcPending \cup {id}
       /\ rpcPromise' = [rpcPromise EXCEPT ![id] = PendingPromise]
       /\ toHost' = Append(toHost, RpcMsg(id, op, <<WrapCount(count),
                                                    WrapTimeout(timeoutMs)>>))
       /\ hist' = [hist EXCEPT !.issuedRpc = Append(@, id),
                               !.asked[id] = <<count, timeoutMs>>]
  /\ UNCHANGED <<hostVars, toWorker, rpcSettles, task, bootstrapPromise, scall,
                 serialVars, lateCount, cloneVars>>

\* worker.addEventListener("error", ...): the listener hands the message to
\* onWorkerCrash, which writes it to the debug log; the worker either goes on
\* running or is gone
WorkerError ==
  /\ ~hist.crashed
  /\ \E dead \in BOOLEAN :
       hist' = [hist EXCEPT !.crashed = TRUE, !.dead = dead,
                            !.outstanding = pending]
  /\ UNCHANGED <<hostVars, toWorker, toHost, workerVars, scall, serialVars,
                 lateCount, cloneVars>>

WorkerAlive == ~hist.dead

\* ------------------------------------------------- the clone protocol engine
\* the state outside the engine
bridgeVars == <<hostVars, toWorker, toHost, workerVars, scall, serialVars,
                hist, lateCount, scriptVars>>

NextAddrSkipping(addr) == addr + 2 * BlockSize

\* blocks are taken in increasing address order, one block size apart
NextAddr(addr) == addr + BlockSize

BlockArrivedOrMismatch(reply) == reply # "timeout"

\* the echoed header with the same address and length, and the payload
BlockArrived(reply) == reply = "block"

IsAckAnyByte(reply) == reply # <<>>

\* require ACK: the single byte 0x06
IsAck(reply) == reply = <<ACK>>

\* the engine is between two operations
EngineFree == engine.state \in {"Idle", "Failed"}

\* the commands the current operation has written
OpSent == SubSeq(sent, engine.from + 1, Len(sent))

ExitCommand == Cmd("E", 0)

\* the block at an address
BlockAt(addr) == (addr \div BlockSize) + 1

HasCachedImageAlways(key) == TRUE

\* upload requires an existing cache entry
HasCachedImage(key) == cache[key] # NoImage

ApplyRowsOnly(image, rows) ==
  rows \o [n \in 1..(Len(image) - Len(rows)) |-> 0]

\* the rows of an image: the content of its channel blocks
RowsOf(image) == SubSeq(image, 1, MaxBlocks - 1)

\* the edited rows go to their channel slots; what lies outside the channel
\* directory is kept as it is in the cached image
ApplyRows(image, rows) == rows \o SubSeq(image, MaxBlocks, Len(image))

\* what an operation returns to its caller
Result(op, key, error, addr, wrote, image, rows) ==
  [op |-> op, key |-> key, error |-> error, addr |-> addr, wrote |-> wrote,
   image |-> image, rows |-> rows]

\* Idle -> Entering: break marker, pause, program command
Enter(op, key, image, rows) ==
  /\ engine' = [IdleEngine EXCEPT !.state = "Entering", !.pc = "program",
                                  !.op = op, !.key = key, !.image = image,
                                  !.rows = rows,
                                  !.from = Len(sent)]
  /\ sent' = sent \o <<Cmd("break", 0), Cmd("program", 0)>>
  /\ UNCHANGED <<cache, radio, results>>

\* the engine record e goes to Exiting with the exit command sent
ExitingWith(e, error) ==
  /\ engine' = [e EXCEPT !.state = "Exiting", !.pc = "", !.error = error]
  /\ sent' = Append(sent, ExitCommand)

ExitingOnSuccessOnly(error) ==
  /\ engine' = [engine EXCEPT !.state = "Exiting", !.pc = "", !.error = error]
  /\ sent' = IF error = "" THEN Append(sent, ExitCommand) ELSE sent

\* -> Exiting: the exit command is sent on success and on any failure
Exiting(error) == ExitingWith(engine, error)

\* download(deviceKey)
download(key) ==
  /\ EngineFree
  /\ Len(results) < MaxOps
  /\ Enter("download", key, NoImage, <<>>)
  /\ UNCHANGED bridgeVars

\* upload(deviceKey, rows)
upload(key, rows) ==
  /\ EngineFree
  /\ Len(results) < MaxOps
  /\ IF HasCachedImage(key)
     THEN Enter("upload", key, ApplyRows(cache[key], rows), rows)
     ELSE /\ results' = Append(results,
                               Result("upload", key, "NoCachedImage", 0, <<>>,
                                      NoImage, rows))
          /\ UNCHANGED <<engine, cache, radio, sent>>
  /\ UNCHANGED bridgeVars

\* Entering: require a single ACK byte, then send the break marker again
EnterReply(reply) ==
  /\ engine.state = "Entering" /\ engine.pc = "program"
  /\ IF reply = <<ACK>>
     THEN /\ engine' = [engine EXCEPT !.pc = "ident"]
          /\ sent' = Append(sent, Cmd("break", 0))
     ELSE Exiting("ProtocolRefused")
  /\ UNCHANGED <<cache, radio, results, bridgeVars>>

EnterAck == \E reply \in Replies : EnterReply(reply)

HasSignatureAlways(ident) == TRUE

\* the block contains one of the family's expected signature substrings
HasSignature(ident) == ident = "signature"

\* Entering: read the identification block, require a signature, send ACK
IdentReply(ident) ==
  /\ engine.state = "Entering" /\ engine.pc = "ident"
  /\ IF HasSignature(ident)
     THEN /\ engine' = [engine EXCEPT !.pc = "identAck", !.ident = ident]
          /\ sent' = Append(sent, Cmd("ack", 0))
     ELSE ExitingWith([engine EXCEPT !.ident = ident], "IdentMismatch")
  /\ UNCHANGED <<cache, radio, results, bridgeVars>>

Identify == \E ident \in Idents : IdentReply(ident)

\* Entering -> Identified: require an ACK back
IdentAckReply(reply) ==
  /\ engine.state = "Entering" /\ engine.pc = "identAck"
  /\ IF reply = <<ACK>>
     THEN /\ engine' = [engine EXCEPT !.state = "Identified", !.pc = ""]
          /\ UNCHANGED sent
     ELSE Exiting("ProtocolRefused")
  /\ UNCHANGED <<cache, radio, results, bridgeVars>>

IdentAck == \E reply \in Replies : IdentAckReply(reply)

\* Identified -> Reading | Writing: the command for the first block
BeginTransfer ==
  /\ engine.state = "Identified"
  /\ IF engine.op = "download"
     THEN /\ engine' = [engine EXCEPT !.state = "Reading", !.pc = "block"]
          /\ sent' = Append(sent, Cmd("R", 0))
     ELSE /\ engine' = [engine EXCEPT !.state = "Writing", !.pc = "block"]
          /\ sent' = Append(sent, Cmd("W", 0))
  /\ UNCHANGED <<cache, radio, results, bridgeVars>>

\* Reading: expect the echoed header and the payload, then send ACK
ReadReply(reply) ==
  /\ engine.state = "Reading" /\ engine.pc = "block"
  /\ IF BlockArrived(reply)
     THEN /\ engine' = [engine EXCEPT
                          !.pc = "blockAck",
                          !.image = Append(@, radio[BlockAt(engine.addr)])]
          /\ sent' = Append(sent, Cmd("ack", engine.addr))
     ELSE Exiting("BlockReadFailed")
  /\ UNCHANGED <<cache, radio, results, bridgeVars>>

ReadBlock == \E reply \in BlockReplies : ReadReply(reply)

\* Reading: require an ACK back, then go on with the next address
ReadAckReply(reply) ==
  /\ engine.state = "Reading" /\ engine.pc = "blockAck"
  /\ IF reply # <<ACK>>
     THEN Exiting("BlockReadFailed")
     ELSE IF NextAddr(engine.addr) < ImageSize
     THEN /\ engine' = [engine EXCEPT !.pc = "block", !.addr = NextAddr(@)]
          /\ sent' = Append(sent, Cmd("R", NextAddr(engine.addr)))
     ELSE Exiting("")
  /\ UNCHANGED <<cache, radio, results, bridgeVars>>

ReadBlockAck == \E reply \in Replies : ReadAckReply(reply)

\* Writing: require ACK for the block, then go on with the next address; a
\* block the radio did not answer for in time may or may not have been stored
WriteReply(reply) ==
  /\ engine.state = "Writing"
  /\ LET n == BlockAt(engine.addr)
         stored == [radio EXCEPT ![n] = engine.image[n]]
     IN IF ~IsAck(reply)
        THEN /\ Exiting("BlockWriteFailed")
             /\ radio' \in (IF reply = <<>> THEN {radio, stored} ELSE {radio})
        ELSE /\ radio' = stored
             /\ IF NextAddr(engine.addr) < ImageSize
                THEN /\ engine' = [engine EXCEPT !.addr = NextAddr(@)]
                     /\ sent' = Append(sent, Cmd("W", NextAddr(engine.addr)))
                ELSE Exiting("")
  /\ UNCHANGED <<cache, results, bridgeVars>>

WriteBlock == \E reply \in Replies : WriteReply(reply)

EndStateIdentified(error) == IF error = "" THEN "Idle" ELSE "Identified"

\* Exiting -> {Idle | Failed}
EndState(error) == IF error = "" THEN "Idle" ELSE "Failed"

ReplacedAlways(e) == [cache EXCEPT ![e.key] = e.image]

\* the cache after the operation of engine record e: on full success its
\* entry is replaced as a whole, on any failure it is left untouched
Replaced(e) ==
  IF e.error = "" THEN [cache EXCEPT ![e.key] = e.image] ELSE cache

\* Exiting -> Idle | Failed: the operation returns; on full success the cache
\* entry is replaced as a whole
Return ==
  /\ engine.state = "Exiting"
  /\ engine' = [engine EXCEPT !.state = EndState(engine.error)]
  /\ cache' = Replaced(engine)
  /\ results' = Append(results, Result(engine.op, engine.key, engine.error,
                                       engine.addr, OpSent, engine.image,
                                       engine.rows))
  /\ UNCHANGED <<radio, sent, bridgeVars>>

\* --------------------------------------------- the command-line test scripts
programVarsBut == <<hostVars, toWorker, toHost, workerVars, scall, serialVars,
                    hist, lateCount, engine, cache, radio, sent, results>>
programVars == <<hostVars, toWorker, toHost, workerVars, scall, serialVars,
                 hist, lateCount, engine, cache, radio, sent, results, node>>

\* NodeSerialBridge.open: the port object is created, then opened
NodeOpened(b, ok) == [port |-> "port", isOpen |-> ok]

NodeClosedKeepsPort(b, ok) == b

\* NodeSerialBridge.close: this.port = null, then the port is closed when it
\* was open; a failing close leaves the device open
NodeClosed(b, ok) ==
  IF b.port = "null" THEN b
  ELSE [port |-> "null", isOpen |-> b.isOpen /\ ~ok]

\* this.port?.isOpen
NodeConnected(b) == b.port # "null" /\ b.isOpen

\* the outcome of a bridge method: what it returns or the error it throws
NodeOutcome(op, r) ==
  [op |-> op, ok |-> r.ok, error |-> IF r.ok THEN "" ELSE ErrorText(r.err),
   data |-> r.data]

\* NodeSerialBridge.readHex: const wanted = Math.max(0, Number(count || 0))
NodeWanted(count) == IF count > 0 THEN count ELSE 0

\* NodeSerialBridge.readHex at the end of its loop (enough bytes are buffered
\* or the deadline has passed); readBytes parses the hex text of the result
NodeRead(op, count) ==
  LET wanted == NodeWanted(count)
      available == Min({wanted, Len(node.readBuffer)})
      out == SubSeq(node.readBuffer, 1, available)
      result == ReadHexResult(out, wanted)
  IN /\ node' = [node EXCEPT
                   !.readBuffer = Remaining(node.readBuffer, available),
                   !.calls = @ + 1,
                   !.last = NodeOutcome(op, Returned(
                              IF op = "readBytes" THEN ReadBytesResult(result)
                              ELSE result))]

\* a method of NodeSerialBridge, called and run to its end
nodeCall(op, arg) ==
  /\ node.calls < MaxNodeCalls
  /\ LET b == node.bridge
         refused == [node EXCEPT !.calls = @ + 1,
                                 !.last = NodeOutcome(op, Thrown(NotConnected))]
     IN
     CASE op = "open" ->
            IF NodeConnected(b)
            THEN node' = [node EXCEPT !.calls = @ + 1,
                                      !.last = NodeOutcome(op, Returned(AlreadyConnected.data))]
            ELSE \E ok \in BOOLEAN :
                   node' = [node EXCEPT
                              !.bridge = NodeOpened(b, ok),
                              !.calls = @ + 1,
                              !.last = NodeOutcome(op,
                                 IF ok THEN Returned(Connected)
                                 ELSE Thrown(CHOOSE e \in PortOpenErrors : TRUE))]
       [] op = "close" ->
            IF b.port = "null"
            THEN node' = [node EXCEPT
                            !.calls = @ + 1,
                            !.last = NodeOutcome(op,
                               Returned(Data("No port connected.", 0, <<>>)))]
            ELSE \E ok \in BOOLEAN :
                   node' = [node EXCEPT
                              !.bridge = NodeClosed(b, ok),
                              !.readBuffer = <<>>,
                              !.calls = @ + 1,
                              !.last = NodeOutcome(op,
                                 IF ok \/ ~b.isOpen
                                 THEN Returned(Data("Disconnected.", 0, <<>>))
                                 ELSE Thrown(CHOOSE e \in PortOpenErrors : TRUE))]
       [] op \in {"writeBytes", "writeHex"} ->
            IF ~NodeConnected(b) THEN node' = refused
            ELSE node' = [node EXCEPT
                            !.wire = @ \o arg,
                            !.calls = @ + 1,
                            !.last = NodeOutcome(op, Returned(Data("", Len(arg), <<>>)))]
       [] op \in {"readHex", "readBytes"} -> NodeRead(op, arg[1])
       [] op = "prepareClone" ->
            IF ~NodeConnected(b) THEN node' = refused
            ELSE node' = [node EXCEPT
                            !.readBuffer = <<>>,
                            !.calls = @ + 1,
                            !.last = NodeOutcome(op, Returned(Data("prepared", 1, <<>>)))]
  /\ UNCHANGED <<programVarsBut, hwTest, smokeTest>>

\* this.port.on("data", chunk => this.readBuffer = concatUint8(...)): the
\* open device sends a byte
nodeData ==
  /\ node.bridge.isOpen
  /\ Len(node.readBuffer) < MaxRx
  /\ \E b \in RxBytes :
       node' = [node EXCEPT !.readBuffer = concatUint8(@, <<b>>)]
  /\ UNCHANGED <<programVarsBut, hwTest, smokeTest>>

\* run(): what precedes the try block; an error reaches run().catch
runSetup ==
  /\ hwTest.pc = "setup"
  /\ \/ hwTest' = [hwTest EXCEPT !.pc = "open"]
     \/ hwTest' = [hwTest EXCEPT !.pc = "done", !.exit = "1",
                                 !.failed = @ \cup {"setup"}]
  /\ UNCHANGED <<smokeTest, programVars>>

\* catch (error) { failure = error; ... }
runCaught(t, step) ==
  [t EXCEPT !.pc = "finally", !.failure = TRUE, !.failed = @ \cup {step}]

\* await serial.open(baudRate)
runOpen ==
  /\ hwTest.pc = "open"
  /\ \E ok \in BOOLEAN :
       LET t == [hwTest EXCEPT !.bridge = NodeOpened(@, ok)]
       IN hwTest' = IF ok THEN [t EXCEPT !.pc = "download"]
                    ELSE runCaught(t, "open")
  /\ UNCHANGED <<smokeTest, programVars>>

HwSteps == <<"download", "erase", "write", "readback", "finally">>

\* steps 1 to 4 of the try block: each one ends or throws; step 1 ends with
\* backupSaved = true
runStep(n) ==
  /\ n \in 1..4
  /\ hwTest.pc = HwSteps[n]
  /\ \/ hwTest' = [hwTest EXCEPT !.pc = HwSteps[n + 1],
                                 !.backupSaved = @ \/ n = 1]
     \/ hwTest' = runCaught(hwTest, HwSteps[n])
  /\ UNCHANGED <<smokeTest, programVars>>

RestoreWantedOnSuccess(t) == t.backupSaved /\ ~t.failure

\* finally { if (backupSaved) ...
RestoreWanted(t) == t.backupSaved

\* the finally block up to the close: the restore, or the message that it is
\* skipped
runRestore ==
  /\ hwTest.pc = "finally"
  /\ IF RestoreWanted(hwTest)
     THEN \/ hwTest' = [hwTest EXCEPT !.pc = "close", !.restores = @ + 1]
          \/ hwTest' = [hwTest EXCEPT !.pc = "close", !.restores = @ + 1,
                                      !.failure = TRUE,
                                      !.failed = @ \cup {"restore"}]
     ELSE hwTest' = [hwTest EXCEPT !.pc = "close"]
  /\ UNCHANGED <<smokeTest, programVars>>

\* await serial.close().catch(() => {})
runClose ==
  /\ hwTest.pc = "close"
  /\ \E ok \in BOOLEAN :
       hwTest' = [hwTest EXCEPT !.pc = "exit", !.closes = @ + 1,
                                !.bridge = NodeClosed(@, ok)]
  /\ UNCHANGED <<smokeTest, programVars>>

\* if (failure) { process.exit(1); }
runExit ==
  /\ hwTest.pc = "exit"
  /\ hwTest' = [hwTest EXCEPT !.pc = "done",
                              !.exit = IF hwTest.failure THEN "1" ELSE "0"]
  /\ UNCHANGED <<smokeTest, programVars>>

\* main(): what precedes the try block; an error reaches main().catch
mainSetup ==
  /\ smokeTest.pc = "setup"
  /\ \/ smokeTest' = [smokeTest EXCEPT !.pc = "download"]
     \/ smokeTest' = [smokeTest EXCEPT !.pc = "done", !.exit = "1",
                                       !.failed = @ \cup {"setup"}]
  /\ UNCHANGED <<hwTest, programVars>>

SmokeSteps == <<"download", "upload", "readback", "verify", "close">>

\* the try block: download, upload, download, verify; each one ends or throws.
\* The runtime opens the session through serial_open when it starts to clone.
mainStep(n) ==
  /\ n \in 1..4
  /\ smokeTest.pc = SmokeSteps[n]
  /\ \E b \in (IF n = 1
               THEN {NoBridge, NodeOpened(NoBridge, TRUE),
                     NodeOpened(NoBridge, FALSE)}
               ELSE {smokeTest.bridge}) :
       \/ /\ b.isOpen
          /\ smokeTest' = [smokeTest EXCEPT !.pc = SmokeSteps[n + 1],
                                            !.bridge = b]
       \/ smokeTest' = [smokeTest EXCEPT !.pc = "close", !.bridge = b,
                                         !.failed = @ \cup {SmokeSteps[n]}]
  /\ UNCHANGED <<hwTest, programVars>>

\* finally { await serialBridge.close().catch(() => {}); }
mainClose ==
  /\ smokeTest.pc = "close"
  /\ \E ok \in BOOLEAN :
       smokeTest' = [smokeTest EXCEPT !.pc = "exit", !.closes = @ + 1,
                                      !.bridge = NodeClosed(@, ok)]
  /\ UNCHANGED <<hwTest, programVars>>

\* main() returns, or its error reaches main().catch: process.exit(1)
mainExit ==
  /\ smokeTest.pc = "exit"
  /\ smokeTest' = [smokeTest EXCEPT
                     !.pc = "done",
                     !.exit = IF smokeTest.failed = {} THEN "0" ELSE "1"]
  /\ UNCHANGED <<hwTest, programVars>>

\* ------------------------------------------- the page's inline bridge (app.js)
\* callWorker(method, payload): every call registers a message listener of its
\* own, which stays registered until the result with the call's id arrives
appCallWorker(method) ==
  /\ Len(hist.issuedReq) < MaxCalls + hist.before
  /\ LET id == NextReqId(reqId) IN
       /\ reqId' = id
       /\ pending' = pending \cup {id}
       /\ hostPromise' = [hostPromise EXCEPT ![id] = PendingPromise]
       /\ toWorker' = Append(toWorker, CallMsg(id, method))
       /\ hist' = [hist EXCEPT !.issuedReq = Append(@, id)]
  /\ UNCHANGED <<hostSettles, toHost, workerVars, scall, serialVars, lateCount,
                 cloneVars>>

\* the onMessage listeners registered when a message is dispatched: one per
\* outstanding call
Listeners == pending

\* handleSerialRpc(msg) of the page for the operations that end at once
appHandleSerialRpc(m) ==
  IF m.name = "log" THEN Returned(Data("logged", 1, <<>>))
  ELSE Thrown(UnknownOp(m.name))

\* one message event of the worker: every registered listener is called with
\* it.  For a serial-rpc each listener runs handleSerialRpc and posts a
\* result; for a result the listener of the call with its id settles the call
\* and removes itself, the other listeners return.
appOnMessage ==
  /\ toHost # <<>>
  /\ toHost' = Tail(toHost)
  /\ LET m == Head(toHost)
         r == appHandleSerialRpc(m)
         runs == [j \in 1..Cardinality(Listeners) |-> m.id]
     IN
       IF IsSerialRpc(m)
       THEN /\ toWorker' = toWorker \o [j \in DOMAIN runs |-> RpcReply(m.id, r)]
            /\ hist' = [hist EXCEPT
                          !.executed = @ \o runs,
                          !.rpcPosted = @ \o runs,
                          !.rpcFailed[m.id] =
                             IF r.ok \/ runs = <<>> THEN @
                             ELSE Failure(RpcReply(m.id, r).error)]
            /\ UNCHANGED <<pending, hostPromise, hostSettles>>
       ELSE /\ HostResult(m)
            /\ UNCHANGED toWorker
  /\ UNCHANGED <<reqId, workerVars, scall, serialVars, lateCount, cloneVars>>

\* ============================================================ specifications
\* the bridge with a closed port at the start
Next ==
  \/ \E method \in Methods : callWorker(method)
  \/ HostOnMessage
  \/ \E k \in RpcIds : OpenRequestSettle(k, OnePort)
  \/ \E k \in RpcIds : OpenPortSettle(k)
  \/ ReadLoop
  \/ WorkerOnMessage
  \/ BootstrapSettle
  \/ \E i \in CallIds : TaskAfterBoot(i)
  \/ \E i \in CallIds : EngineStep(i, EngineOps)

Spec == Init /\ [][Next]_vars

\* the bridge over an open serial session
NextSerial ==
  \/ \E method \in SerialMethods : callWorker(method)
  \/ HostOnMessage
  \/ SinkStep
  \/ ReadLoop
  \/ WorkerOnMessage
  \/ \E i \in CallIds : TaskAfterBoot(i)
  \/ \E i \in CallIds : EngineStep(i, SerialOps)

SpecSerial == InitOpen /\ [][NextSerial]_vars

\* a result reaches the page's listener late or twice: its id was never
\* issued, is already answered, or is still pending
LateToHost ==
  /\ lateCount.host < MaxLate
  /\ lateCount' = [lateCount EXCEPT !.host = @ + 1]
  /\ \E id \in HostIds :
       toHost' = Append(toHost, ResultMsg(id, TRUE, Data("late", id, <<>>), ""))
  /\ UNCHANGED <<hostVars, toWorker, workerVars, scall, serialVars, hist,
                 cloneVars>>

\* the same for the worker's onmessage: a late or duplicate serial-rpc-result
LateToWorker ==
  /\ lateCount.worker < MaxLate
  /\ lateCount' = [lateCount EXCEPT !.worker = @ + 1]
  /\ \E id \in WorkerIds :
       toWorker' = Append(toWorker, RpcResultMsg(id, FALSE, NoData, "late"))
  /\ UNCHANGED <<hostVars, toHost, workerVars, scall, serialVars, hist,
                 cloneVars>>

\* the bridge alone (the engine's transport operations are answered at once),
\* with late and duplicate responses
NextLate ==
  \/ \E method \in SerialMethods : callWorker(method)
  \/ HostOnMessage
  \/ WorkerOnMessage
  \/ \E i \in CallIds : TaskAfterBoot(i)
  \/ \E i \in CallIds : EngineStep(i, LateOps)
  \/ LateToHost
  \/ LateToWorker

SpecLate == InitOpen /\ [][NextLate]_vars

\* the transport operations on an open session, called in any order and
\* overlapping in time
NextTransport ==
  \/ \E op \in TransportOps : \E arg \in ArgsOf(op) : serialWrapper(op, arg)
  \/ HostOnMessage
  \/ \E k \in WorkerIds : OpenRequestSettle(k, OnePort)
  \/ \E k \in WorkerIds : OpenPortSettle(k)
  \/ \E k \in WorkerIds : CloseCancelSettle(k)
  \/ \E k \in WorkerIds : ClosePortSettle(k)
  \/ \E k \in WorkerIds : ReadPoll(k)
  \/ \E k \in WorkerIds : PrepareSignals(k)
  \/ \E k \in WorkerIds : PrepareSettle(k)
  \/ ReadLoop

SpecTransport == InitOpen /\ [][NextTransport]_vars

\* open and close from construction, with two serial ports to pick from
NextSession ==
  \/ \E op \in SessionOps : serialWrapper(op, <<>>)
  \/ HostOnMessage
  \/ \E k \in WorkerIds : OpenRequestSettle(k, Ports)
  \/ \E k \in WorkerIds : OpenPortSettle(k)
  \/ \E k \in WorkerIds : CloseCancelSettle(k)
  \/ \E k \in WorkerIds : ClosePortSettle(k)

SpecSession == Init /\ [][NextSession]_vars

\* the bridge over an open session that is torn down: the engine closes the
\* session while reads are waiting, and the worker fails
NextCrash ==
  \/ \E method \in SerialMethods : callWorker(method)
  \/ HostOnMessage
  \/ \E k \in RpcIds : CloseCancelSettle(k)
  \/ \E k \in RpcIds : ClosePortSettle(k)
  \/ \E k \in RpcIds : ReadPoll(k)
  \/ WorkerError
  \/ WorkerAlive /\ WorkerOnMessage
  \/ WorkerAlive /\ \E i \in CallIds : TaskAfterBoot(i)
  \/ WorkerAlive /\ \E i \in CallIds : EngineStep(i, CrashOps)

SpecCrash == InitOpen /\ [][NextCrash]_vars

\* the clone operations, one after the other, against a radio whose answers
\* may be wrong or missing at every exchange
NextClone ==
  \/ \E key \in DeviceKeys : download(key)
  \/ \E key \in DeviceKeys : \E rows \in Rows : upload(key, rows)
  \/ EnterAck
  \/ Identify
  \/ IdentAck
  \/ BeginTransfer
  \/ ReadBlock
  \/ ReadBlockAck
  \/ WriteBlock
  \/ Return

SpecClone == Init /\ [][NextClone]_vars

\* the clone operations against a deterministic loop-back device: every
\* exchange is answered as the protocol expects, and the device's memory holds
\* any content at the start
InitLoopBack == InitBridge /\ InitEngine /\ InitScripts /\ radio \in Images

NextLoopBack ==
  \/ \E key \in DeviceKeys : download(key)
  \/ \E key \in DeviceKeys : \E rows \in Rows : upload(key, rows)
  \/ EnterReply(<<ACK>>)
  \/ IdentReply("signature")
  \/ IdentAckReply(<<ACK>>)
  \/ BeginTransfer
  \/ ReadReply("block")
  \/ ReadAckReply(<<ACK>>)
  \/ WriteReply(<<ACK>>)
  \/ Return

SpecLoopBack == InitLoopBack /\ [][NextLoopBack]_vars

\* the two command-line test scripts, each with its own bridge; every step
\* may end or throw
NextScripts ==
  \/ runSetup
  \/ runOpen
  \/ \E n \in 1..4 : runStep(n)
  \/ runRestore
  \/ runClose
  \/ runExit
  \/ mainSetup
  \/ \E n \in 1..4 : mainStep(n)
  \/ mainClose
  \/ mainExit

SpecScripts == Init /\ [][NextScripts]_vars

\* InitOpen is a state the bridge reaches from Init (it counts one call and
\* one serial rpc as issued before the run)
NodeOps == {"open", "close", "writeBytes", "writeHex", "readHex", "readBytes",
            "prepareClone"}

\* the methods of NodeSerialBridge called one after the other
NextNode ==
  \/ \E op \in NodeOps : \E arg \in ArgsOf(op) : nodeCall(op, arg)
  \/ nodeData

SpecNode == Init /\ [][NextNode]_vars

\* reads on an open session whose buffer holds any bytes
NextCodec ==
  \/ \E op \in {"readHex", "readBytes"} : \E arg \in CodecArgs : serialWrapper(op, arg)
  \/ HostOnMessage

SpecCodec == InitCodec /\ [][NextCodec]_vars

\* counts and timeouts the engine asks for
AskedCounts == {0, 1, 2}
AskedTimeouts == {0, 50}

\* the engine's reads through the worker's wrappers, on an open session
NextWrap ==
  \/ \E op \in {"readHex", "readBytes"} : \E count \in AskedCounts :
       \E timeoutMs \in AskedTimeouts : serial_read(op, count, timeoutMs)
  \/ HostOnMessage
  \/ \E k \in WorkerIds : ReadPoll(k)
  \/ ReadLoop

SpecWrap == InitOpen /\ [][NextWrap]_vars

\* the page's inline bridge over a loaded runtime
NextInline ==
  \/ \E method \in SerialMethods : appCallWorker(method)
  \/ appOnMessage
  \/ WorkerOnMessage
  \/ \E i \in CallIds : TaskAfterBoot(i)
  \/ \E i \in CallIds : EngineStep(i, LateOps)

SpecInline == InitOpen /\ [][NextInline]_vars

InitOpenReached == OpenState(0)


\* ==================================================================== claims
StrictlyIncreasing(seq) ==
  \A p, q \in DOMAIN seq : p < q => seq[p] < seq[q]

IsPrefix(a, b) ==
  /\ Len(a) <= Len(b)
  /\ \A n \in DOMAIN a : a[n] = b[n]

Count(seq, x) == Cardinality({n \in DOMAIN seq : seq[n] = x})

Settled(promise) == promise.state \in {"resolved", "rejected"}

\* the page's listener takes a message that is not a serial-rpc request
HostTakesResult ==
  /\ toHost # <<>>
  /\ toHost' = Tail(toHost)
  /\ Head(toHost).type # "serial-rpc"

\* the worker's onmessage takes a serial-rpc-result
WorkerTakesRpcResult ==
  /\ toWorker # <<>>
  /\ toWorker' = Tail(toWorker)
  /\ Head(toWorker).type = "serial-rpc-result"

\* C1: in each direction every issued call gets an id strictly greater than
\* every id issued earlier in that direction; no id is issued twice.
C1_IdsStrictlyIncreasing ==
  /\ StrictlyIncreasing(hist.issuedReq)
  /\ StrictlyIncreasing(hist.issuedRpc)

\* three ids issued in each direction, with responses handled in between
C1_Witness ==
  /\ Len(hist.issuedReq) >= 3
  /\ Len(hist.issuedRpc) >= 3
  /\ Len(hist.settled) >= 2
  /\ Len(hist.rpcSettled) >= 2

\* C2: a response whose id is not pending is ignored: no continuation runs and
\* the pending map is unchanged; the continuation of every call runs at most
\* once.
C2_StaleResponseIgnored ==
  /\ [](\A i \in HostIds : hostSettles[i] <= 1)
  /\ [](\A k \in WorkerIds : rpcSettles[k] <= 1)
  /\ [][(HostTakesResult /\ Head(toHost).id \notin pending)
          => UNCHANGED <<pending, hostPromise, hostSettles>>]_vars
  /\ [][(WorkerTakesRpcResult /\ Head(toWorker).id \notin rpcPending)
          => UNCHANGED <<rpcPending, rpcPromise, rpcSettles>>]_vars

\* each listener has dropped a response whose id was not pending, after calls
\* were answered
C2_Witness ==
  /\ hist.ignored
  /\ hist.rpcIgnored
  /\ \E i \in HostIds : i > 1 /\ hostSettles[i] = 1
  /\ \E k \in WorkerIds : k > 1 /\ rpcSettles[k] = 1

\* nothing is in flight and no handler is running
Quiescent ==
  /\ toWorker = <<>>
  /\ toHost = <<>>
  /\ writeQueue = <<>>
  /\ bootstrapPromise # "pending"
  /\ \A i \in HostIds : task[i].pc \in {"none", "done"}
  /\ \A k \in WorkerIds : scall[k].pc \in {"none", "done"}

\* C3: no call is left unresolved: every callWorker call, whatever its method
\* name, receives exactly one result message with its id and its promise is
\* settled (stated for the state in which the worker has processed everything).
C3_NoCallLeftUnresolved ==
  Quiescent =>
    \A n \in DOMAIN hist.issuedReq :
      /\ Settled(hostPromise[hist.issuedReq[n]])
      /\ Count(hist.posted, hist.issuedReq[n]) = 1

\* C4: a serial-rpc request with an unknown op is answered with an error result
\* carrying its id, and the wire, the read buffer and the session are untouched.
C4_UnknownOpRejected ==
  [][(/\ toHost # <<>>
      /\ toHost' = Tail(toHost)
      /\ Head(toHost).type = "serial-rpc"
      /\ Head(toHost).name \notin KnownOps)
       => /\ UNCHANGED <<port, reader, writer, readBuffer, portState, signals,
                         writeQueue, wire>>
          /\ Len(toWorker') = Len(toWorker) + 1
          /\ toWorker'[Len(toWorker')].type = "serial-rpc-result"
          /\ toWorker'[Len(toWorker')].id = Head(toHost).id
          /\ ~toWorker'[Len(toWorker')].ok
          /\ toWorker'[Len(toWorker')].error # ""]_vars

\* an unknown op was rejected while bytes were buffered and bytes were written
C4_Witness ==
  /\ \E k \in WorkerIds :
       /\ rpcPromise[k].state = "rejected"
       /\ rpcPromise[k].error = "Unknown serial op: nosuch"
  /\ readBuffer # <<>>
  /\ wire # <<>>

\* C5: when a handler throws, the message that crosses carries the id of the
\* failed call, ok = false and the error text, and the caller's promise is
\* rejected, never resolved, with that same text.
C5_ThrownErrorRejectsCaller ==
  /\ \A i \in HostIds : hist.failed[i].thrown =>
       /\ hostPromise[i].state \in {"pending", "rejected"}
       /\ hostPromise[i].state = "rejected"
            => hostPromise[i].error = hist.failed[i].text
       /\ \A n \in DOMAIN toHost :
            (toHost[n].type = "result" /\ toHost[n].id = i)
              => (~toHost[n].ok /\ toHost[n].error = hist.failed[i].text)
  /\ \A k \in WorkerIds : hist.rpcFailed[k].thrown =>
       /\ rpcPromise[k].state \in {"pending", "rejected"}
       /\ rpcPromise[k].state = "rejected"
            => rpcPromise[k].error = hist.rpcFailed[k].text
       /\ \A n \in DOMAIN toWorker :
            (toWorker[n].type = "serial-rpc-result" /\ toWorker[n].id = k)
              => (~toWorker[n].ok /\ toWorker[n].error = hist.rpcFailed[k].text)

\* a handler has thrown on each side and both callers are rejected
C5_Witness ==
  /\ \E i \in HostIds : hist.failed[i].thrown /\ hostPromise[i].state = "rejected"
  /\ \E k \in WorkerIds : hist.rpcFailed[k].thrown /\ rpcPromise[k].state = "rejected"

\* C6: the channels have independent id spaces: a callWorker call is settled
\* only by a method-call result with its id, a serialRpc call only by a
\* serial-rpc-result with its id.
C6_ChannelsIndependent ==
  [][/\ \A i \in HostIds :
          (hostPromise[i].state = "pending" /\ hostPromise'[i].state # "pending")
            => /\ toHost # <<>>
               /\ toHost' = Tail(toHost)
               /\ Head(toHost).type = "result"
               /\ Head(toHost).id = i
     /\ \A k \in WorkerIds :
          (rpcPromise[k].state = "pending" /\ rpcPromise'[k].state # "pending")
            => /\ toWorker # <<>>
               /\ toWorker' = Tail(toWorker)
               /\ Head(toWorker).type = "serial-rpc-result"
               /\ Head(toWorker).id = k]_vars

\* both channels use the ids 2 and 3: serial rpc 2 was answered while call 2
\* is pending, call 3 was answered while serial rpc 3 is pending
C6_Witness ==
  /\ hostPromise[2].state = "pending"
  /\ Settled(rpcPromise[2])
  /\ Settled(hostPromise[3])
  /\ rpcPromise[3].state = "pending"

\* C7 as stated: callers on one channel are settled in the order in which
\* their requests were issued.
C7_SettledInIssueOrder ==
  /\ StrictlyIncreasing(hist.settled)
  /\ StrictlyIncreasing(hist.rpcSettled)

\* C7 amended: callers on one channel are settled in the order in which the
\* results were posted by the other side.
C7_SettledInPostOrder ==
  /\ IsPrefix(hist.settled, hist.posted)
  /\ IsPrefix(hist.rpcSettled, hist.rpcPosted)

\* on both channels the later request was answered first
C7_Witness ==
  /\ hist.settled = <<1, 3, 2>>
  /\ hist.rpcSettled = <<1, 3, 2>>

\* C8: with several calls pending, the response with id i settles call i alone,
\* with the data or the error of that response, and leaves the others pending.
C8_ResponseSettlesItsCall ==
  [][/\ (HostTakesResult /\ Head(toHost).id \in pending) =>
          LET m == Head(toHost) IN
          /\ pending' = pending \ {m.id}
          /\ hostPromise'[m.id].state = (IF m.ok THEN "resolved" ELSE "rejected")
          /\ m.ok => hostPromise'[m.id].data = m.data
          /\ (~m.ok /\ m.error # "") => hostPromise'[m.id].error = m.error
          /\ \A j \in HostIds \ {m.id} : hostPromise'[j] = hostPromise[j]
     /\ (WorkerTakesRpcResult /\ Head(toWorker).id \in rpcPending) =>
          LET m == Head(toWorker) IN
          /\ rpcPending' = rpcPending \ {m.id}
          /\ rpcPromise'[m.id].state = (IF m.ok THEN "resolved" ELSE "rejected")
          /\ m.ok => rpcPromise'[m.id].data = m.data
          /\ (~m.ok /\ m.error # "") => rpcPromise'[m.id].error = m.error
          /\ \A j \in WorkerIds \ {m.id} : rpcPromise'[j] = rpcPromise[j]]_vars

\* on both channels the later of two pending calls is settled, the earlier
\* one is still pending
C8_Witness ==
  /\ Settled(hostPromise[3]) /\ 2 \in pending /\ hostPromise[2].state = "pending"
  /\ Settled(rpcPromise[3]) /\ 2 \in rpcPending /\ rpcPromise[2].state = "pending"

\* the bytes of call k on the wire, in order
WireOf(k) ==
  LET sel == SelectSeq(wire, LAMBDA w : w.call = k)
  IN [n \in DOMAIN sel |-> sel[n].byte]

C10_AtMostOnePending == Cardinality(rpcPending) <= 1

Awaiting == {i \in HostIds : task[i].pc = "await"}

\* C10 amended: every pending serial-rpc request is the one transport operation
\* a running method call is suspended on, so there are never more pending
\* requests than method calls in progress.
C10_OnePendingPerCall ==
  /\ \A k \in rpcPending : \E i \in Awaiting : task[i].wait = k
  /\ Cardinality(rpcPending) <= Cardinality(Awaiting)

\* two method calls are in progress and each has a transport operation pending
C10_Witness ==
  /\ Cardinality(rpcPending) = 2
  /\ Cardinality(Awaiting) = 2

\* the serial ports that are open
OpenPorts == {p \in Ports : portState[p] = "opened"}

\* C11: at most one serial session is open system-wide in every reachable
\* state, for every interleaving of open and close calls, two overlapping open
\* calls included.
C11_AtMostOneSessionOpen == Cardinality(OpenPorts) <= 1

\* the page's listener takes a serial-rpc request with this op
HostTakesOp(op) ==
  /\ toHost # <<>>
  /\ toHost' = Tail(toHost)
  /\ Head(toHost).type = "serial-rpc"
  /\ Head(toHost).name = op

\* the result the listener posts in this step
PostedResult == toWorker'[Len(toWorker')]

PostsResult == Len(toWorker') = Len(toWorker) + 1

ReadReturnsAtOnce(op) ==
  /\ HostTakesOp(op)
  /\ port # "null"
  /\ PostsResult

ReadReturnsLater(k, op) ==
  /\ scall[k].op = op
  /\ scall[k].pc = "poll"
  /\ scall'[k].pc = "done"

\* the hex text of the bytes the device sends
HexText(bytes) == [n \in DOMAIN bytes |-> IF bytes[n] = 6 THEN "06" ELSE "AB"]

\* what the claim requires of a readHex of count bytes that returns in this step
ReadHexOutcome(count) ==
  /\ PostsResult
  /\ PostedResult.ok
  /\ IF Len(readBuffer) >= count
     THEN /\ PostedResult.data.hex = HexText(SubSeq(readBuffer, 1, count))
          /\ PostedResult.data.n = count
          /\ PostedResult.data.timedOut = "false"
          /\ readBuffer' = SubSeq(readBuffer, count + 1, Len(readBuffer))
     ELSE /\ PostedResult.data.hex = HexText(readBuffer)
          /\ PostedResult.data.n = Len(readBuffer)
          /\ PostedResult.data.timedOut = "true"
          /\ readBuffer' = <<>>

\* C13: a readHex on an open session never fails on a missed deadline: with
\* fewer than count bytes buffered it returns all of them with timedOut = true
\* and removes exactly those; with count bytes buffered it returns the oldest
\* count bytes with timedOut = false.
C13_ReadNeverFailsOnDeadline ==
  [][/\ ReadReturnsAtOnce("readHex") => ReadHexOutcome(Head(toHost).arg[1])
     /\ \A k \in WorkerIds :
          ReadReturnsLater(k, "readHex") => ReadHexOutcome(scall[k].count)]_vars

\* one readHex returned a short read of one byte with timedOut = true, another
\* returned the byte it asked for with timedOut = false
C13_Witness ==
  /\ \E n \in DOMAIN toWorker :
       /\ toWorker[n].ok
       /\ toWorker[n].data.timedOut = "true"
       /\ toWorker[n].data.hex = <<"AB">>
  /\ \E n \in DOMAIN toWorker :
       /\ toWorker[n].ok
       /\ toWorker[n].data.timedOut = "false"
       /\ toWorker[n].data.hex = <<"06">>

\* the bytes a read of count bytes takes from the buffer
Oldest(count) == SubSeq(readBuffer, 1, Min({count, Len(readBuffer)}))

\* C14 as stated: the result of readBytes carries the bytes read and a
\* timedOut flag that is true exactly when fewer than count bytes are returned.
ReadBytesWithFlag(count) ==
  /\ PostsResult
  /\ PostedResult.ok
  /\ PostedResult.data.bytes = Oldest(count)
  /\ PostedResult.data.timedOut # "absent"
  /\ PostedResult.data.timedOut = "true" <=> Len(PostedResult.data.bytes) < count

C14_ReadBytesHasTimedOut ==
  [][/\ ReadReturnsAtOnce("readBytes") => ReadBytesWithFlag(Head(toHost).arg[1])
     /\ \A k \in WorkerIds :
          ReadReturnsLater(k, "readBytes") => ReadBytesWithFlag(scall[k].count)]_vars

\* C14 amended: the result of readBytes is the array of the bytes read and
\* nothing else: the oldest bytes of the buffer, at most count, which leave the
\* buffer; it has no timedOut flag.
ReadBytesAlone(count) ==
  /\ PostsResult
  /\ PostedResult.ok
  /\ PostedResult.data.bytes = Oldest(count)
  /\ PostedResult.data.timedOut = "absent"
  /\ PostedResult.data.hex = <<>>
  /\ readBuffer' = SubSeq(readBuffer, Len(Oldest(count)) + 1, Len(readBuffer))

C14_ReadBytesIsArray ==
  [][/\ ReadReturnsAtOnce("readBytes") => ReadBytesAlone(Head(toHost).arg[1])
     /\ \A k \in WorkerIds :
          ReadReturnsLater(k, "readBytes") => ReadBytesAlone(scall[k].count)]_vars

\* a readBytes of two bytes returned one byte, another returned the one byte
\* it asked for
C14_Witness ==
  /\ \E k \in WorkerIds :
       /\ scall[k].op = "readBytes" /\ scall[k].pc = "done" /\ scall[k].count = 2
       /\ \E n \in DOMAIN toWorker :
            toWorker[n].id = k /\ toWorker[n].ok /\ toWorker[n].data.bytes = <<171>>
  /\ \E k \in WorkerIds :
       /\ scall[k].op = "readBytes" /\ scall[k].pc = "done" /\ scall[k].count = 1
       /\ \E n \in DOMAIN toWorker :
            toWorker[n].id = k /\ toWorker[n].ok /\ toWorker[n].data.bytes = <<6>>

\* the number of bytes a read result carries
Got(result) == Len(result.data.hex) + Len(result.data.bytes)

\* C15: a read that is outstanding when close() is called is not aborted with
\* an error, accumulates no further bytes, and returns with timedOut = true
\* (a short read).
C15_ClosedReadTimesOut ==
  [][\A k \in WorkerIds :
       (scall[k].stale /\ scall[k].pc = "poll" /\ scall'[k].pc = "done")
         => /\ PostsResult
            /\ PostedResult.ok
            /\ Got(PostedResult) <= scall[k].had
            /\ Got(PostedResult) < scall[k].count
            /\ scall[k].op = "readHex" => PostedResult.data.timedOut = "true"]_vars

\* this step appends a received byte to the read buffer
BufferAppended ==
  /\ rxCount' = rxCount + 1
  /\ Len(readBuffer') = Len(readBuffer) + 1
  /\ SubSeq(readBuffer', 1, Len(readBuffer)) = readBuffer

\* in this step a read call returns and takes bytes from the front of the buffer
BufferDrained ==
  /\ \/ ReadReturnsAtOnce("readHex")
     \/ ReadReturnsAtOnce("readBytes")
     \/ \E k \in WorkerIds : ReadReturnsLater(k, scall[k].op)
  /\ \E n \in 1..Len(readBuffer) :
       readBuffer' = SubSeq(readBuffer, n + 1, Len(readBuffer))

\* this step empties the buffer: prepareClone or resetBuffers begins, or close ends
BufferCleared ==
  /\ readBuffer' = <<>>
  /\ \/ HostTakesOp("prepareClone")
     \/ HostTakesOp("resetBuffers")
     \/ \E k \in WorkerIds :
          scall[k].op = "close" /\ scall[k].pc # "done" /\ scall'[k].pc = "done"

\* C16 as stated: the read buffer is modified only by the background
\* accumulation appending received bytes and by read calls removing bytes from
\* its front.
C16_OnlyLoopAndReads ==
  [][readBuffer' # readBuffer => (BufferAppended \/ BufferDrained)]_vars

\* C16 amended: the read buffer is modified only by the background accumulation
\* appending received bytes, by read calls removing bytes from its front, and
\* by prepareClone, resetBuffers and close, which empty it as a whole.
C16_LoopReadsAndClears ==
  [][readBuffer' # readBuffer
       => (BufferAppended \/ BufferDrained \/ BufferCleared)]_vars

\* two bytes were received: one read took one of them, the other one was
\* discarded when the buffer was emptied, and a prepareClone has run
C16_Witness ==
  /\ rxCount = 2
  /\ readBuffer = <<>>
  /\ Cardinality({n \in DOMAIN toWorker : toWorker[n].ok /\ Got(toWorker[n]) = 1}) = 1
  /\ \A n \in DOMAIN toWorker : Got(toWorker[n]) <= 1
  /\ \E k \in WorkerIds : scall[k].op = "prepareClone" /\ scall[k].pc = "done"

\* the prepareClone calls in progress
Preparing(k) == scall[k].op = "prepareClone" /\ scall[k].pc \in {"signals", "settle"}

C18_NoPendingSurvivesTeardown ==
  /\ hist.crashed => pending \cap hist.outstanding = {}
  /\ \A k, j \in WorkerIds :
       (scall[k].op = "close" /\ scall[k].pc = "done" /\ scall[j].pc = "poll")
         => j \notin rpcPending

\* a successful download of the key has returned before result n
DownloadedBefore(n) ==
  \E m \in 1..(n - 1) :
    /\ results[m].op = "download"
    /\ results[m].key = results[n].key
    /\ results[m].error = ""

\* C19: an upload for a deviceKey without a cached image (no successful
\* download of that key before it) fails with NoCachedImage and writes
\* nothing to the transport.
C19_UploadWithoutImageRefused ==
  \A n \in DOMAIN results :
    (results[n].op = "upload" /\ ~DownloadedBefore(n))
      => /\ results[n].error = "NoCachedImage"
         /\ results[n].wrote = <<>>

\* one key has been downloaded; the upload for the other key is refused
C19_Witness ==
  \E m, n \in DOMAIN results :
    /\ m < n
    /\ results[m].op = "download" /\ results[m].error = ""
    /\ results[n].op = "upload" /\ results[n].key # results[m].key
    /\ results[n].error = "NoCachedImage"
    /\ sent = results[m].wrote

\* the operation has sent a block command
Transferred(wrote) == \E n \in DOMAIN wrote : wrote[n].cmd \in {"R", "W"}

\* C20: every clone operation that entered Reading or Writing sends the exit
\* command exactly once, whether it succeeds or fails, and has sent it when
\* it returns.
C20_ExitSentOnce ==
  /\ \A n \in DOMAIN results :
       Transferred(results[n].wrote)
         => /\ Count(results[n].wrote, ExitCommand) = 1
            /\ results[n].wrote[Len(results[n].wrote)] = ExitCommand
  /\ Count(OpSent, ExitCommand) <= 1
  /\ (Transferred(OpSent) /\ engine.state \in {"Exiting", "Idle", "Failed"})
       => Count(OpSent, ExitCommand) = 1

\* a download that failed at a block and an upload that succeeded have each
\* sent one exit command
C20_Witness ==
  \E m, n \in DOMAIN results :
    /\ results[m].op = "download" /\ results[m].error = "BlockReadFailed"
    /\ results[n].op = "upload" /\ results[n].error = ""
    /\ Count(results[m].wrote, ExitCommand) = 1
    /\ Count(results[n].wrote, ExitCommand) = 1

\* the commands of an operation that stopped at the identification: one
\* enter exchange, one identify exchange, the exit command, no block command
StoppedAtIdent(wrote) ==
  /\ Count(wrote, Cmd("program", 0)) = 1
  /\ Count(wrote, Cmd("break", 0)) = 2
  /\ Count(wrote, Cmd("ack", 0)) = 0
  /\ ~Transferred(wrote)

\* C21: when the identification block holds none of the expected signatures
\* the operation fails with IdentMismatch after one enter exchange and one
\* identify exchange, and it sends no block-read or block-write command.
C21_IdentMismatchStopsTransfer ==
  /\ engine.ident \in {"other", "short"}
       => /\ engine.state \in {"Exiting", "Failed"}
          /\ engine.error = "IdentMismatch"
          /\ StoppedAtIdent(OpSent)
  /\ \A n \in DOMAIN results :
       results[n].error = "IdentMismatch" => StoppedAtIdent(results[n].wrote)

\* an upload over a cached image has returned IdentMismatch
C21_Witness ==
  /\ engine.state = "Failed"
  /\ engine.op = "upload"
  /\ engine.ident = "other"
  /\ results # <<>>
  /\ results[Len(results)].op = "upload"
  /\ results[Len(results)].error = "IdentMismatch"

\* the operation has asked for every block of the address range
FullRead(wrote) == \A a \in BlockAddrs : Count(wrote, Cmd("R", a)) = 1

\* the step in which a successful operation returns
ReturnsSuccess ==
  engine.state = "Exiting" /\ engine.error = "" /\ engine'.state = "Idle"

\* C22: download replaces the cache entry of its deviceKey as a whole, and
\* only when the Reading sequence has succeeded in full; in every other step
\* of a download, and when it fails, the cache is what it was before.
C22_DownloadReplacesOnSuccess ==
  [][engine.op = "download"
       => IF ReturnsSuccess
          THEN /\ FullRead(OpSent)
               /\ Len(engine.image) = MaxBlocks
               /\ cache' = [cache EXCEPT ![engine.key] = engine.image]
          ELSE cache' = cache]_vars

\* a download failed at the second block: the entry of an earlier download of
\* the same key is still there, not the partial image
C22_Witness ==
  /\ engine.state = "Failed"
  /\ engine.op = "download"
  /\ engine.error = "BlockReadFailed"
  /\ engine.addr = BlockSize
  /\ Len(engine.image) < MaxBlocks
  /\ cache[engine.key] \in Images
  /\ \E m \in DOMAIN results :
       /\ m < Len(results)
       /\ results[m].op = "download"
       /\ results[m].key = engine.key
       /\ results[m].error = ""

\* the operation has sent the write command of every block
FullWrite(wrote) == \A a \in BlockAddrs : Count(wrote, Cmd("W", a)) = 1

\* C23: upload replaces the cache entry only when the Writing sequence has
\* completed without a block error; a block write answered with anything but
\* the ACK makes the operation fail with BlockWriteFailed for that address,
\* and the cache stays what it was before the upload.
C23_UploadKeepsCacheOnBlockError ==
  [][/\ engine.op = "upload"
          => IF ReturnsSuccess
             THEN /\ FullWrite(OpSent)
                  /\ cache' = [cache EXCEPT ![engine.key] = engine.image]
             ELSE cache' = cache
     /\ \A reply \in Replies \ {<<ACK>>} :
          WriteReply(reply)
            => /\ engine'.state = "Exiting"
               /\ engine'.error = "BlockWriteFailed"
               /\ engine'.addr = engine.addr
               /\ sent[Len(sent)] = Cmd("W", engine.addr)
     /\ (engine.state = "Exiting" /\ engine.error = "BlockWriteFailed")
          => /\ cache' = cache
             /\ engine'.state = "Failed"
             /\ results' = Append(results,
                                  Result("upload", engine.key, "BlockWriteFailed",
                                         engine.addr, OpSent, engine.image,
                                         engine.rows))]_vars

\* an upload with an edited row failed at the second block: the radio holds
\* the first block of the new image, the cache still holds the old image
C23_Witness ==
  /\ engine.state = "Failed"
  /\ engine.op = "upload"
  /\ engine.error = "BlockWriteFailed"
  /\ engine.addr = BlockSize
  /\ cache[engine.key] # engine.image
  /\ radio[1] = engine.image[1]
  /\ radio[1] # cache[engine.key][1]
  /\ results[Len(results)].error = "BlockWriteFailed"
  /\ results[Len(results)].addr = BlockSize

IsReadCmd(c) == c.cmd = "R"

\* the addresses of the block reads of an operation, in the order sent
ReadAddrs(wrote) ==
  LET reads == SelectSeq(wrote, IsReadCmd)
  IN [n \in DOMAIN reads |-> reads[n].addr]

\* the addresses start at 0 and each is the previous one plus the block length
Contiguous(addrs) ==
  \A n \in DOMAIN addrs :
    addrs[n] = IF n = 1 THEN 0 ELSE addrs[n - 1] + BlockSize

\* the size of an image in bytes
ImageBytes(image) == Len(image) * BlockSize

\* C24: in a read transfer the block addresses requested start at 0 and are
\* strictly increasing and contiguous, and after a successful download the
\* image has the device's declared memory size, the sum of the block lengths.
C24_ReadAddressesContiguous ==
  /\ Contiguous(ReadAddrs(OpSent))
  /\ \A n \in DOMAIN results :
       /\ Contiguous(ReadAddrs(results[n].wrote))
       /\ (results[n].op = "download" /\ results[n].error = "")
            => Len(ReadAddrs(results[n].wrote)) = MaxBlocks
  /\ (engine.op = "download" /\ engine.state = "Idle")
       => /\ ImageBytes(engine.image) = ImageSize
          /\ ImageBytes(cache[engine.key]) = ImageSize

\* a download has read every block, the last one at the last address
C24_Witness ==
  /\ engine.op = "download"
  /\ engine.state = "Idle"
  /\ Len(ReadAddrs(OpSent)) = MaxBlocks
  /\ ReadAddrs(OpSent)[MaxBlocks] = ImageSize - BlockSize
  /\ ImageBytes(cache[engine.key]) = ImageSize

IsBlockCmd(c) == c.cmd \in {"R", "W"}

\* the block commands of an operation, in the order sent
BlockCmds(wrote) == SelectSeq(wrote, IsBlockCmd)

BlockErrors == {"BlockReadFailed", "BlockWriteFailed"}

\* no block command was sent twice; after a block error the command of the
\* failed block is the last block command and the exit command ends the run
NoRetry(wrote, error, addr) ==
  LET cmds == BlockCmds(wrote)
  IN /\ \A m, n \in DOMAIN cmds : cmds[m] = cmds[n] => m = n
     /\ error \in BlockErrors
          => /\ cmds # <<>>
             /\ cmds[Len(cmds)].addr = addr
             /\ wrote[Len(wrote)] = ExitCommand

\* C25: there is no automatic retry: within one download or upload each block
\* command is sent at most once, and the first block that times out or does
\* not match makes the operation fail with BlockReadFailed / BlockWriteFailed
\* and end in Failed, with no block command after it.
C25_NoAutomaticRetry ==
  /\ [](/\ NoRetry(OpSent, engine.error, engine.addr)
        /\ engine.error \in BlockErrors => engine.state \in {"Exiting", "Failed"}
        /\ \A n \in DOMAIN results :
             NoRetry(results[n].wrote, results[n].error, results[n].addr))
  /\ [][/\ \A reply \in BlockReplies \ {"block"} :
             ReadReply(reply)
               => /\ engine'.error = "BlockReadFailed"
                  /\ sent' = Append(sent, ExitCommand)
        /\ \A reply \in Replies \ {<<ACK>>} :
             (WriteReply(reply) \/ ReadAckReply(reply))
               => /\ engine'.error \in BlockErrors
                  /\ sent' = Append(sent, ExitCommand)
        /\ (engine.state = "Exiting" /\ engine.error \in BlockErrors)
             => engine'.state = "Failed" /\ sent' = sent]_vars

\* a download stopped by a mismatching second block has returned: one read
\* command per block, none after the failure
C25_Witness ==
  /\ engine.state = "Failed"
  /\ engine.error = "BlockReadFailed"
  /\ engine.addr = BlockSize
  /\ BlockCmds(OpSent) = <<Cmd("R", 0), Cmd("R", BlockSize)>>
  /\ results[Len(results)].error = "BlockReadFailed"

\* results n, n + 1, n + 2 are a successful download, upload of the rows as
\* downloaded, and download again, of one deviceKey
RoundTrip(n) ==
  /\ n + 2 \in DOMAIN results
  /\ \A m \in n..(n + 2) :
       results[m].error = "" /\ results[m].key = results[n].key
  /\ results[n].op = "download"
  /\ results[n + 1].op = "upload"
  /\ results[n + 1].rows = RowsOf(results[n].image)
  /\ results[n + 2].op = "download"

DeclaredEdges ==
  {<<"Idle", "Entering">>, <<"Entering", "Identified">>,
   <<"Identified", "Reading">>, <<"Identified", "Writing">>,
   <<"Reading", "Exiting">>, <<"Writing", "Exiting">>,
   <<"Exiting", "Idle">>, <<"Exiting", "Failed">>}

\* a failed handshake goes to the exit sequence; the operation after a failed
\* one starts in Failed
FailureEdges == {<<"Entering", "Exiting">>, <<"Failed", "Entering">>}

StateChanges == engine'.state # engine.state

\* C27: the engine changes state only along the declared edges; Reading or
\* Writing is never entered without a successful enter and identify
\* handshake, and every operation ends in Idle or Failed.
C27_OnlyDeclaredEdges ==
  [][StateChanges => <<engine.state, engine'.state>> \in DeclaredEdges]_vars

\* C27 as the engine behaves: the declared edges and the two failure edges;
\* Identified is entered only by the ACK that ends a handshake with a matching
\* identification; an operation returns only into Idle or Failed.
C27_DeclaredAndFailureEdges ==
  /\ [][/\ StateChanges
             => <<engine.state, engine'.state>> \in DeclaredEdges \cup FailureEdges
        /\ (StateChanges /\ engine'.state = "Identified")
             => /\ IdentAckReply(<<ACK>>)
                /\ engine.ident = "signature"
                /\ OpSent = <<Cmd("break", 0), Cmd("program", 0),
                              Cmd("break", 0), Cmd("ack", 0)>>
        /\ (StateChanges /\ engine'.state \in {"Reading", "Writing"})
             => engine.state = "Identified"
        /\ results' # results => engine'.state \in {"Idle", "Failed"}]_vars
  /\ [](EngineFree <=> engine.state \notin {"Entering", "Identified", "Reading",
                                            "Writing", "Exiting"})

\* after an operation that failed in the handshake and returned, the next
\* operation has entered Writing
C27_Witness ==
  /\ engine.state = "Writing"
  /\ results # <<>>
  /\ results[Len(results)].error = "ProtocolRefused"
  /\ ~Transferred(results[Len(results)].wrote)

\* C28: in the hardware test, once the backup has been saved the restore is
\* attempted exactly once, whether the later steps succeed or fail; without a
\* backup no restore is attempted; the run ends with exit code 1 when a step
\* or the restore failed.
C28_RestoreOnceAndExitCode ==
  /\ hwTest.restores <= 1
  /\ hwTest.restores = 1 => hwTest.backupSaved
  /\ hwTest.backupSaved => "download" \notin hwTest.failed
  /\ hwTest.pc \in {"close", "exit", "done"}
       => hwTest.restores = (IF hwTest.backupSaved THEN 1 ELSE 0)
  /\ hwTest.exit # "none" => (hwTest.exit = "1" <=> hwTest.failed # {})

\* the readback failed after the backup was saved and the restore failed too:
\* one restore, exit code 1
C28_Witness ==
  /\ hwTest.exit = "1"
  /\ hwTest.failed = {"readback", "restore"}
  /\ hwTest.restores = 1

\* the test body of script record t has ended and the process result is
\* about to be decided, or has been
BodyEnded(t) == t.pc = "exit" \/ (t.pc = "done" /\ "setup" \notin t.failed)

BytesOf(m) ==
  m.data.bytes \o [n \in DOMAIN m.data.hex |-> ParseHexByte(m.data.hex[n])]

RECURSIVE ReturnedBytes(_)
\* the bytes returned by the reads, in the order in which the reads completed
ReturnedBytes(msgs) ==
  IF msgs = <<>> THEN <<>>
  ELSE BytesOf(Head(msgs)) \o ReturnedBytes(Tail(msgs))

\* only reads have been taken since the session was opened
NoClear ==
  \A k \in WorkerIds \ {1} : scall[k].op \in {"", "readHex", "readBytes"}

\* C30: the read buffer is a FIFO that neither loses, duplicates nor reorders
\* bytes: within one session with no clear, the bytes returned by the reads in
\* completion order, followed by the bytes still buffered, are the bytes
\* received.
C30_BufferIsFifo ==
  NoClear => ReturnedBytes(toWorker) \o readBuffer = hist.received

\* two overlapping reads: the read issued second completed first with the
\* first byte received, the read issued first took the second byte
C30_Witness ==
  /\ NoClear
  /\ hist.received = <<6, 171>>
  /\ readBuffer = <<>>
  /\ Len(toWorker) = 2
  /\ toWorker[1].id > toWorker[2].id
  /\ BytesOf(toWorker[1]) = <<6>>
  /\ BytesOf(toWorker[2]) = <<171>>

\* the serial-rpc request k has been taken by the page
Delivered(k) ==
  /\ \E n \in DOMAIN hist.issuedRpc : hist.issuedRpc[n] = k
  /\ \A n \in DOMAIN toHost : ~(IsSerialRpc(toHost[n]) /\ toHost[n].id = k)

\* C31: every serial-rpc request posted by the worker is executed by the page
\* exactly once and answered with exactly one serial-rpc-result carrying its
\* id, whatever the number of callWorker calls outstanding at that moment.
\* (Here for the operations that end at once, which are executed and answered
\* in the step that takes the request.)
C31_RpcExecutedOnce ==
  \A k \in WorkerIds \ {1} :
    /\ Count(hist.executed, k) <= 1
    /\ Count(hist.rpcPosted, k) <= 1
    /\ Delivered(k) => Count(hist.executed, k) = 1 /\ Count(hist.rpcPosted, k) = 1

\* the open call k ends in this step with an error
OpenFails(k) ==
  /\ scall[k].op = "open"
  /\ scall[k].pc \in {"requestPort", "portOpen"}
  /\ scall'[k].pc = "done"
  /\ PostsResult
  /\ ~PostedResult.ok

\* no other transport call was taken by the page since call k began
Alone(k) ==
  \A j \in WorkerIds \ {k} :
    /\ scall[j].pc \in {"none", "done"}
    /\ j > k => scall[j].op = ""

\* C32: a failed open leaves the session closed: when open fails at any step
\* (the port request is refused, or the port cannot be opened) the transport
\* is in the state it had before the call, so that a later open attempts a
\* fresh connection.
C32_FailedOpenLeavesClosed ==
  [][\A k \in WorkerIds :
       (OpenFails(k) /\ Alone(k))
         => port' = "null" /\ ~reader' /\ ~writer' /\ readBuffer' = <<>>]_vars

\* the method op of the bridge is called in this step
NodeCalls(op) == node'.calls = node.calls + 1 /\ node'.last.op = op

ClosedOps == {"writeBytes", "writeHex", "readHex", "readBytes", "prepareClone"}

\* C33: on a closed session writeBytes, writeHex, readHex, readBytes and
\* prepareClone each fail with the error "Port is not connected." and leave
\* the session state and the read buffer unchanged, with nothing written to
\* the wire.
C33_ClosedSessionRefuses ==
  [][\A op \in ClosedOps :
       (NodeCalls(op) /\ ~NodeConnected(node.bridge))
         => /\ ~node'.last.ok
            /\ node'.last.error = "Port is not connected."
            /\ node'.bridge = node.bridge
            /\ node'.readBuffer = node.readBuffer
            /\ node'.wire = node.wire]_vars

\* C34: close() never fails and is idempotent: on an open session it ends
\* with the port cleared and the read buffer empty, also when closing the port
\* raises an error; on a closed session it changes nothing and reports
\* "No port connected.".
C34_CloseNeverFails ==
  [][NodeCalls("close")
       => /\ node'.last.ok
          /\ node'.bridge.port = "null"
          /\ node'.readBuffer = <<>>
          /\ node.bridge.port = "null"
               => /\ node'.bridge = node.bridge
                  /\ node'.readBuffer = node.readBuffer
                  /\ node'.last.data.text = "No port connected."]_vars

\* the sessions in which the bytes now in the read buffer were received (the
\* buffer holds the bytes received last)
BufferSessions ==
  SubSeq(hist.rxSession, Len(hist.rxSession) - Len(readBuffer) + 1,
         Len(hist.rxSession))

\* the read k, which began to wait during a session, returns in this step
WaitingReadReturns(k) ==
  /\ scall[k].op \in {"readHex", "readBytes"}
  /\ scall[k].pc = "poll"
  /\ scall'[k].pc = "done"
  /\ hist.readIn[k] > 0
  /\ PostsResult

\* C35: sessions are isolated: a read issued during one session never returns
\* bytes received in a later session, and no byte is appended to the buffer
\* by the read loop of a session that has been closed, for every interleaving
\* of open, close, background append and read.
C35_SessionsIsolated ==
  /\ [](readLoop => reader /\ port # "null")
  /\ [][\A k \in WorkerIds :
          WaitingReadReturns(k)
            => \A n \in 1..Got(PostedResult) :
                 BufferSessions[n] <= hist.readIn[k]]_vars

\* the bytes a read of count bytes removes from the buffer
Taken(count) == SubSeq(readBuffer, 1, Min({count, Len(readBuffer)}))

\* C36: readBytes returns exactly the byte values that the underlying readHex
\* removed from the buffer, in the same order: encoding bytes as hex text and
\* parsing that text back is the identity for every sequence of byte values
\* 0..255, the empty sequence included.
C36_ReadBytesRoundTrip ==
  [][HostTakesOp("readBytes")
       => /\ PostsResult
          /\ PostedResult.ok
          /\ PostedResult.data.bytes = Taken(Head(toHost).arg[1])
          /\ readBuffer' = SubSeq(readBuffer, Len(PostedResult.data.bytes) + 1,
                                  Len(readBuffer))]_vars

\* readBytes has returned the empty sequence, and then two bytes whose hex
\* texts differ in both digits
C36_Witness ==
  /\ hist.received = <<255, 16>>
  /\ readBuffer = <<>>
  /\ \E n \in DOMAIN toWorker : toWorker[n].data.bytes = <<255, 16>>
  /\ \E n \in DOMAIN toWorker :
       toWorker[n].id > 1 /\ toWorker[n].ok /\ toWorker[n].data.bytes = <<>>
         /\ toWorker[n].data.hex = <<>> /\ toWorker[n].data.timedOut = "absent"

\* the id issued in a step that moves a counter from old to new
IssuedNow(old, new) == IF new # old THEN {new} ELSE {}

\* the id of the response the page's listener takes in this step
HostAnsweredNow == IF HostTakesResult THEN {Head(toHost).id} ELSE {}

\* the id of the serial-rpc-result the worker takes in this step
WorkerAnsweredNow == IF WorkerTakesRpcResult THEN {Head(toWorker).id} ELSE {}

\* C37: the pending map of each channel holds exactly the ids of the calls
\* that were issued and have not yet received a response: an entry is added
\* when the call is issued, removed when its matching response arrives, and
\* never removed or added by any other event.
C37_PendingIsOutstanding ==
  /\ [](/\ pending = {i \in HostIds : hostPromise[i].state = "pending"}
        /\ rpcPending = {k \in WorkerIds : rpcPromise[k].state = "pending"})
  /\ [][/\ pending' = (pending \cup IssuedNow(reqId, reqId')) \ HostAnsweredNow
        /\ rpcPending' =
             (rpcPending \cup IssuedNow(rpcId, rpcId')) \ WorkerAnsweredNow]_vars

\* both maps hold an entry, a call of each channel has been answered, and a
\* response with an id that is not pending has been taken by each listener
C37_Witness ==
  /\ pending # {}
  /\ rpcPending # {}
  /\ Len(hist.settled) >= 2
  /\ Len(hist.rpcSettled) >= 2
  /\ hist.ignored
  /\ hist.rpcIgnored

\* the handleCall invocation i is past "await ensurePyodide()" and uses the
\* runtime
UsesRuntime(i) == task[i].pc \in {"run", "await"}

\* C38: the worker's runtime bootstrap runs at most once: when several method
\* calls arrive before the bootstrap has finished, all of them wait for the
\* same single bootstrap and none starts a second one, and no method that
\* needs the runtime executes before the bootstrap has completed.
C38_BootstrapOnce ==
  /\ hist.boots <= 1
  /\ (\E i \in CallIds : task[i].pc = "boot") => hist.boots = 1
  /\ \A i \in CallIds : UsesRuntime(i) => bootstrapPromise = "fulfilled"

\* two calls have arrived while the bootstrap is running and wait for it
C38_Witness ==
  /\ bootstrapPromise = "pending"
  /\ hist.boots = 1
  /\ Cardinality({i \in CallIds : task[i].pc = "boot"}) >= 2

\* the read request m carries the count and the timeout the engine asked for
Forwarded(m) == m.arg = hist.asked[m.id]

\* the page takes, in this step, a read for which the engine asked <<c, t>>
HostTakesRead(c, t) ==
  /\ \/ HostTakesOp("readHex")
     \/ HostTakesOp("readBytes")
  /\ hist.asked[Head(toHost).id] = <<c, t>>

\* C39: the worker-side transport wrappers forward the engine's read arguments
\* unchanged: a read requested with count c and timeout t reaches the
\* transport as count c and timeout t for every c >= 0 and t >= 0, so a read
\* of 0 bytes consumes nothing from the buffer and a timeout of 0 does not
\* wait.
C39_ReadArgsForwarded ==
  /\ [](\A n \in DOMAIN toHost : IsSerialRpc(toHost[n]) => Forwarded(toHost[n]))
  /\ [][/\ \A t \in AskedTimeouts :
             HostTakesRead(0, t) => readBuffer' = readBuffer
        /\ \A c \in AskedCounts :
             HostTakesRead(c, 0) => PostsResult]_vars

====
